---- MODULE Spec2Model ----
(***************************************************************************)
(* Model of the analysis core of codegenome-x: the in-memory Graph store   *)
(* (addNode, addEdge, the read accessors), the removal simulation, the    *)
(* impact score, the unused-code detector, the file cache (CacheEngine)   *)
(* and the AnalysisEngine runs over a project that changes between runs,  *)
(* the worker pool, the worker script and the merge of its results.       *)
(*                                                                         *)
(* JavaScript Map and Set iterate in insertion order, so a Set<string> is  *)
(* modelled as a sequence without duplicates and a Map as a function plus  *)
(* the sequence of its keys in insertion order.                            *)
(*                                                                         *)
(* The impact score is a JavaScript number with one decimal digit at most  *)
(* (loc * 0.4 plus integers); it is modelled exactly, in tenths, as the    *)
(* integer score10 = 10 * score.                                           *)
(***************************************************************************)
EXTENDS Integers, Sequences, FiniteSets, TLC

VARIABLES graph, last, addCount, files, disk, cacheEngine, analyzers,
          pool, calls, stats

vars == <<graph, last, addCount, files, disk, cacheEngine, analyzers,
          pool, calls, stats>>

\* the project's files, the cache document on disk, the engine's
\* CacheEngine, its analyzer list and its stats field, the worker pool and
\* the analyze() calls in progress: untouched by the Graph operations
envvars == <<files, disk, cacheEngine, analyzers, pool, calls, stats>>

(* ----------------------------- bounds --------------------------------- *)

\* number of addNode calls in a behaviour
MaxAddNode == 3

\* number of edges stored in the graph
MaxEdges == 2

\* number of addEdge calls that build a graph for the simulation runs
MaxSimEdges == 4

\* largest loc of a node in the runs that sweep the score over the levels
MaxLoc == 255

\* ids the callers use for nodes and edge endpoints
NodeIds == {"A", "B", "C"}

\* the (id, attributes) pairs the callers supply to addNode
NodeInputs ==
  { <<"A", [type |-> "endpoint", name |-> "ep",   loc |-> 10]>>,
    <<"A", [type |-> "provider", name |-> "prov", loc |-> 3]>>,
    <<"B", [type |-> "service",  name |-> "svc",  loc |-> 25]>>,
    <<"C", [type |-> "function", name |-> "fn",   loc |-> 10]>> }

\* edge type tags the callers use
EdgeTypes == {"calls"}

(* ------------------------ JavaScript Set / Map ------------------------ *)

Range(s) == { s[i] : i \in 1..Len(s) }

\* Set.prototype.add: appends unless already present
SetAdd(s, x) == IF x \in Range(s) THEN s ELSE Append(s, x)

\* Map.prototype.set on a function with a growing domain
MapSet(m, k, v) == [ x \in (DOMAIN m) \cup {k} |-> IF x = k THEN v ELSE m[x] ]

(* ------------------------------ Graph --------------------------------- *)

\* new Graph(): three empty maps
EmptyGraph ==
  [ nodes     |-> << >>,
    order     |-> << >>,
    edges     |-> << >>,
    nodeTypes |-> << >> ]

\* a GraphNode object as the callers build it: every caller passes
\* metadata {...} and dependencies: new Set(), dependents: new Set()
MakeNode(id, attrs) ==
  [ id           |-> id,
    type         |-> attrs.type,
    name         |-> attrs.name,
    loc          |-> attrs.loc,
    metadata     |-> {},
    dependencies |-> << >>,
    dependents   |-> << >> ]

\* addNode with `this.edges.set(node.id, [])` outside its has() guard
addNodeResetEdges(g, node) ==
  [ nodes     |-> MapSet(g.nodes, node.id, node),
    order     |-> SetAdd(g.order, node.id),
    nodeTypes |-> MapSet(g.nodeTypes, node.type,
                         SetAdd(IF node.type \in DOMAIN g.nodeTypes
                                THEN g.nodeTypes[node.type] ELSE << >>,
                                node.id)),
    edges     |-> MapSet(g.edges, node.id, << >>) ]

\* addNode that keeps the stored node when the id is already present
addNodeKeepExisting(g, node) ==
  [ nodes     |-> IF node.id \in DOMAIN g.nodes
                  THEN g.nodes
                  ELSE MapSet(g.nodes, node.id, node),
    order     |-> SetAdd(g.order, node.id),
    nodeTypes |-> MapSet(g.nodeTypes, node.type,
                         SetAdd(IF node.type \in DOMAIN g.nodeTypes
                                THEN g.nodeTypes[node.type] ELSE << >>,
                                node.id)),
    edges     |-> IF node.id \in DOMAIN g.edges
                  THEN g.edges
                  ELSE MapSet(g.edges, node.id, << >>) ]

\* Graph.addNode
addNode(g, node) ==
  [ nodes     |-> MapSet(g.nodes, node.id, node),
    order     |-> SetAdd(g.order, node.id),
    nodeTypes |-> MapSet(g.nodeTypes, node.type,
                         SetAdd(IF node.type \in DOMAIN g.nodeTypes
                                THEN g.nodeTypes[node.type] ELSE << >>,
                                node.id)),
    edges     |-> IF node.id \in DOMAIN g.edges
                  THEN g.edges
                  ELSE MapSet(g.edges, node.id, << >>) ]

\* the endpoint check with the test of `to` left out
MissingEndpointFromOnly(g, from, to) ==
  from \notin DOMAIN g.nodes

\* Graph.addEdge: the endpoint check
MissingEndpoint(g, from, to) ==
  from \notin DOMAIN g.nodes \/ to \notin DOMAIN g.nodes

\* the metadata object of an edge, as far as the program reads it: the
\* names listed under imports; the default {} lists none
NoMetadata == [imports |-> << >>]

\* Graph.addEdge: the state after a successful insertion.  nodes.get(from)
\* is updated first, nodes.get(to) second (the same object when from = to).
InsertEdge(g, from, to, type, metadata) ==
  LET edge == [from |-> from, to |-> to, type |-> type, metadata |-> metadata]
      n1   == [g.nodes EXCEPT ![from].dependencies = SetAdd(@, to)]
      n2   == [n1 EXCEPT ![to].dependents = SetAdd(@, from)]
  IN  [g EXCEPT !.edges = MapSet(g.edges, from,
                                 Append(IF from \in DOMAIN g.edges
                                        THEN g.edges[from] ELSE << >>, edge)),
                !.nodes = n2]

\* Graph.addEdge
addEdge(g, from, to, type, metadata) ==
  IF MissingEndpoint(g, from, to)
  THEN [ ok    |-> FALSE,
         error |-> <<"Node not found", IF from \notin DOMAIN g.nodes THEN from ELSE to>>,
         graph |-> g ]
  ELSE [ ok    |-> TRUE,
         error |-> << >>,
         graph |-> InsertEdge(g, from, to, type, metadata) ]

\* Graph.getDependencies
getDependencies(g, nodeId) ==
  IF nodeId \in DOMAIN g.nodes THEN g.nodes[nodeId].dependencies ELSE << >>

\* Graph.getDependents
getDependents(g, nodeId) ==
  IF nodeId \in DOMAIN g.nodes THEN g.nodes[nodeId].dependents ELSE << >>

RECURSIVE Flatten(_, _, _)
Flatten(g, order, i) ==
  IF i > Len(order) THEN << >>
  ELSE g.edges[order[i]] \o Flatten(g, order, i + 1)

\* Graph.getAllEdges: the per-source lists, in the Map's key order
getAllEdges(g) == Flatten(g, g.order, 1)

\* Graph.getAllNodes
getAllNodes(g) == [ i \in 1..Len(g.order) |-> g.nodes[g.order[i]] ]

(* ------------------------- impact score ------------------------------ *)

Max(a, b) == IF a >= b THEN a ELSE b

RECURSIVE dfs(_, _, _, _)
RECURSIVE dfsEach(_, _, _, _, _)
\* Graph.calculateDependencyDepth: the inner dfs closure; st carries the
\* closure's captured variables visited and maxDepth
dfs(g, currentId, depth, st) ==
  IF currentId \in st.visited THEN st
  ELSE dfsEach(g, getDependencies(g, currentId), 1, depth + 1,
               [ visited  |-> st.visited \cup {currentId},
                 maxDepth |-> Max(st.maxDepth, depth) ])

\* dependencies.forEach(depId => dfs(depId, depth + 1)), in insertion order
dfsEach(g, deps, i, depth, st) ==
  IF i > Len(deps) THEN st
  ELSE dfsEach(g, deps, i + 1, depth, dfs(g, deps[i], depth, st))

\* calculateDependencyDepth returning the number of nodes the walk reached
\* beyond the start node in place of the deepest level
calculateDependencyDepthByReach(g, nodeId) ==
  Cardinality(dfs(g, nodeId, 0, [visited |-> {}, maxDepth |-> 0]).visited) - 1

\* Graph.calculateDependencyDepth
calculateDependencyDepth(g, nodeId) ==
  dfs(g, nodeId, 0, [visited |-> {}, maxDepth |-> 0]).maxDepth

\* the walk of calculateDependencyDepth with its calls counted: order lists
\* the ids that passed the visited test, in the order visited.add saw them;
\* calls counts the invocations of dfs; budget is the number of invocations
\* still allowed, and exhausted records that the walk asked for more
RECURSIVE dfsWalkRevisits(_, _, _, _)
RECURSIVE dfsWalk(_, _, _, _)
RECURSIVE dfsWalkEach(_, _, _, _, _)

\* dfs without the `if (visited.has(currentId)) return` line
dfsWalkRevisits(g, currentId, depth, st) ==
  IF st.budget = 0 THEN [st EXCEPT !.exhausted = TRUE]
  ELSE dfsWalkEach(g, getDependencies(g, currentId), 1, depth + 1,
                   [ st EXCEPT !.budget   = @ - 1,
                               !.calls    = @ + 1,
                               !.order    = Append(@, currentId),
                               !.maxDepth = Max(@, depth) ])

\* one invocation of the closure dfs(currentId, depth)
dfsWalk(g, currentId, depth, st) ==
  IF st.budget = 0 THEN [st EXCEPT !.exhausted = TRUE]
  ELSE IF currentId \in Range(st.order)
       THEN [st EXCEPT !.budget = @ - 1, !.calls = @ + 1]
       ELSE dfsWalkEach(g, getDependencies(g, currentId), 1, depth + 1,
                        [ st EXCEPT !.budget   = @ - 1,
                                    !.calls    = @ + 1,
                                    !.order    = Append(@, currentId),
                                    !.maxDepth = Max(@, depth) ])

\* dependencies.forEach(depId => dfs(depId, depth + 1)), in insertion order
dfsWalkEach(g, deps, i, depth, st) ==
  IF i > Len(deps) \/ st.exhausted THEN st
  ELSE dfsWalkEach(g, deps, i + 1, depth, dfsWalk(g, deps[i], depth, st))

\* dfs(nodeId, 0) on fresh visited and maxDepth, allowed `budget` invocations
depthWalk(g, nodeId, budget) ==
  dfsWalk(g, nodeId, 0, [ order |-> << >>, maxDepth |-> 0, calls |-> 0,
                          budget |-> budget, exhausted |-> FALSE ])

\* the score expression with the fanOut and fanIn weights exchanged
Score10SwappedWeights(loc, fanOut, fanIn, dependencyDepth) ==
  (loc * 4) + (fanOut * 20) + (fanIn * 30) + (dependencyDepth * 20)

\* the score expression of calculateImpactScore, in tenths:
\* 10 * ((loc * 0.4) + (fanOut * 3) + (fanIn * 2) + (dependencyDepth * 2))
Score10(loc, fanOut, fanIn, dependencyDepth) ==
  (loc * 4) + (fanOut * 30) + (fanIn * 20) + (dependencyDepth * 20)

\* the level cascade with <= in place of <
LevelInclusive(score10) ==
  IF score10 <= 100 THEN "Low"
  ELSE IF score10 <= 500 THEN "Medium"
  ELSE IF score10 <= 1000 THEN "High"
  ELSE "Critical"

\* the level cascade of calculateImpactScore, on tenths
Level(score10) ==
  IF score10 < 100 THEN "Low"
  ELSE IF score10 < 500 THEN "Medium"
  ELSE IF score10 < 1000 THEN "High"
  ELSE "Critical"

\* Graph.calculateImpactScore
calculateImpactScore(g, node) ==
  LET fanOut          == Len(node.dependencies)
      fanIn           == Len(node.dependents)
      dependencyDepth == calculateDependencyDepth(g, node.id)
      score10         == Score10(node.loc, fanOut, fanIn, dependencyDepth)
  IN  [ score10 |-> score10,
        level   |-> Level(score10),
        factors |-> [ loc             |-> node.loc,
                      fanOut          |-> fanOut,
                      fanIn           |-> fanIn,
                      dependencyDepth |-> dependencyDepth ] ]

RECURSIVE SumScore10(_, _, _)
\* nodes.reduce((sum, node) => sum + calculateImpactScore(node).score, 0),
\* in tenths, over nodes[i..]
SumScore10(g, nodes, i) ==
  IF i > Len(nodes) THEN 0
  ELSE calculateImpactScore(g, nodes[i]).score10 + SumScore10(g, nodes, i + 1)

\* Graph.getNodesByType: the ids of the type's index entry, mapped through
\* nodes.get and filtered of the undefined ones
getNodesByType(g, type) ==
  IF type \notin DOMAIN g.nodeTypes THEN << >>
  ELSE LET nodeIds == g.nodeTypes[type]
           present == SelectSeq(nodeIds, LAMBDA id : id \in DOMAIN g.nodes)
       IN  [ i \in 1..Len(present) |-> g.nodes[present[i]] ]

\* Graph.getStats; averageImpactScore is the fraction num / den of tenths
getStats(g) ==
  LET nodes == getAllNodes(g)
      edges == getAllEdges(g)
  IN  [ totalNodes |-> Len(nodes),
        totalEdges |-> Len(edges),
        nodeTypes  |-> [ type \in DOMAIN g.nodeTypes |-> Len(g.nodeTypes[type]) ],
        averageImpactScore |->
          IF Len(nodes) > 0
          THEN [ num |-> SumScore10(g, nodes, 1), den |-> 10 * Len(nodes) ]
          ELSE [ num |-> 0, den |-> 1 ] ]

(* ----------------------- removal simulation --------------------------- *)

RECURSIVE AddAll(_, _)
\* s.forEach(x => acc.add(x))
AddAll(acc, s) ==
  IF s = << >> THEN acc ELSE AddAll(SetAdd(acc, Head(s)), Tail(s))

RECURSIVE AddDependentsOf(_, _, _)
AddDependentsOf(g, acc, s) ==
  IF s = << >> THEN acc
  ELSE AddDependentsOf(g, AddAll(acc, getDependents(g, Head(s))), Tail(s))

\* affectedNodes that also collects the dependents of the dependents
SimAffectedTransitive(g, nodeId) ==
  AddDependentsOf(g, AddAll(<< >>, getDependents(g, nodeId)),
                  getDependents(g, nodeId))

\* removeNodeSimulation: affectedNodes
SimAffected(g, nodeId) == AddAll(<< >>, getDependents(g, nodeId))

\* removeNodeSimulation: orphanedNodes
SimOrphaned(g, nodeId) ==
  LET IsOrphan(depId) ==
        /\ depId \in DOMAIN g.nodes
        /\ Len(g.nodes[depId].dependents) = 1
        /\ nodeId \in Range(g.nodes[depId].dependents)
  IN  AddAll(<< >>, SelectSeq(getDependencies(g, nodeId), IsOrphan))

\* brokenEndpoints without the `node.type === 'endpoint'` branch for the
\* node itself
SimBrokenEndpointsNoSelf(g, nodeId) ==
  LET IsEndpoint(depId) ==
        depId \in DOMAIN g.nodes /\ g.nodes[depId].type = "endpoint"
  IN  AddAll(<< >>, SelectSeq(getDependents(g, nodeId), IsEndpoint))

\* removeNodeSimulation: brokenEndpoints
SimBrokenEndpoints(g, nodeId) ==
  LET IsEndpoint(depId) ==
        depId \in DOMAIN g.nodes /\ g.nodes[depId].type = "endpoint"
  IN  AddAll(IF g.nodes[nodeId].type = "endpoint" THEN <<nodeId>> ELSE << >>,
             SelectSeq(getDependents(g, nodeId), IsEndpoint))

\* removeNodeSimulation: servicesWithoutProvider
SimServicesWithoutProvider(g, nodeId) ==
  LET IsService(depId) ==
        depId \in DOMAIN g.nodes /\ g.nodes[depId].type = "service"
  IN  IF g.nodes[nodeId].type = "provider"
      THEN AddAll(<< >>, SelectSeq(getDependents(g, nodeId), IsService))
      ELSE << >>

\* a simulation that really detaches the node from its neighbours' sets
SimGraphDetach(g, nodeId) ==
  LET Other(x) == x # nodeId
  IN  [g EXCEPT !.nodes =
         [ x \in DOMAIN g.nodes |->
             [g.nodes[x] EXCEPT !.dependencies = SelectSeq(@, Other),
                                !.dependents   = SelectSeq(@, Other)] ]]

\* the Graph after removeNodeSimulation: the method assigns to no field and
\* adds only to its four local sets
SimGraph(g, nodeId) == g

\* Graph.removeNodeSimulation
removeNodeSimulation(g, nodeId) ==
  IF nodeId \notin DOMAIN g.nodes
  THEN [ ok     |-> FALSE,
         error  |-> <<"Node not found", nodeId>>,
         graph  |-> g,
         result |-> << >> ]
  ELSE [ ok     |-> TRUE,
         error  |-> << >>,
         graph  |-> SimGraph(g, nodeId),
         result |-> [ nodeId                  |-> nodeId,
                      affectedNodes           |-> SimAffected(g, nodeId),
                      orphanedNodes           |-> SimOrphaned(g, nodeId),
                      brokenEndpoints         |-> SimBrokenEndpoints(g, nodeId),
                      servicesWithoutProvider |-> SimServicesWithoutProvider(g, nodeId),
                      impactScore             |-> calculateImpactScore(g, g.nodes[nodeId]) ] ]

(* ------------------------ project files and cache ---------------------- *)

\* relative paths of the project's files, in the order the walker lists them
PathOrder == <<"a.ts", "b.ts">>

Paths == Range(PathOrder)

\* a TypeScript source as far as the extractors read it: its number of
\* lines, the modules it imports (resolved to project paths) and the
\* functions it declares, in document order
Sources ==
  [ p \in Paths |->
      IF p = "a.ts"
      THEN { [lines |-> 3, imports |-> << >>,
              decls |-> << [name |-> "f", loc |-> 20] >>],
             [lines |-> 2, imports |-> << >>, decls |-> << >>] }
      ELSE { [lines |-> 4,
              imports |-> << [module |-> "a.ts", names |-> << "f" >>] >>,
              decls |-> << [name |-> "g", loc |-> 30] >>] } ]

\* the project directories the walker can find: each path absent or present
\* with one of its sources
Projects ==
  UNION { [ ps -> UNION { Sources[p] : p \in ps } ] : ps \in SUBSET Paths }

ProjectStates == { fs \in Projects : \A p \in DOMAIN fs : fs[p] \in Sources[p] }

\* FileWalker.walk: the files in directory order
Walk(fs) == SelectSeq(PathOrder, LAMBDA p : p \in DOMAIN fs)

\* new Map(files.map((f) => [f.relativePath, f.content]))
FileMap(fs) == [keys |-> Walk(fs), vals |-> fs]

\* CacheEngine.calculateHash: the SHA-256 digest, taken as collision free
calculateHash(content) == <<"sha256", content>>

\* the files object of a cache document: its keys in insertion order (the
\* order of Object.keys) and the entry of each key
NoEntries == [keys |-> << >>, entries |-> << >>]

\* a parsed JSON value, as far as the cache engine reads it: whether it is
\* null or an object, and its files member if it has one
JsonNull == [type |-> "null", version |-> "", hasFiles |-> FALSE, files |-> NoEntries]

JsonEmptyObject ==
  [type |-> "object", version |-> "", hasFiles |-> FALSE, files |-> NoEntries]

\* CacheEngine.createEmptyCache (the timestamps are not modelled)
createEmptyCache ==
  [type |-> "object", version |-> "1.0.0", hasFiles |-> TRUE, files |-> NoEntries]

\* JSON.stringify on a value gives a text with JSON syntax
JSONstringify(value) == [syntax |-> "json", value |-> value]

\* texts a cache file can hold that JSON.parse rejects: the empty text
\* (written by clear) and a truncated document
EmptyText == [syntax |-> "empty", value |-> JsonNull]

GarbageText == [syntax |-> "garbage", value |-> JsonNull]

\* JSON.parse: a SyntaxError on anything but JSON syntax
JSONparse(text) ==
  IF text.syntax = "json"
  THEN [ok |-> TRUE, value |-> text.value]
  ELSE [ok |-> FALSE, value |-> JsonNull]

\* the cache file: absent, or present with a text that may be unreadable
NoCacheFile == [exists |-> FALSE, readable |-> FALSE, text |-> EmptyText]

CacheFile(text) == [exists |-> TRUE, readable |-> TRUE, text |-> text]

UnreadableCacheFile == [exists |-> TRUE, readable |-> FALSE, text |-> EmptyText]

\* CacheEngine.loadCache: the parsed document, unvalidated, or the empty
\* cache when the file is missing, unreadable or not JSON.  With debug the
\* log line reads data.files inside the try: on the document null that
\* raises a TypeError, which the catch turns into the empty cache
loadCache(d, debug) ==
  IF d.exists
  THEN IF d.readable /\ JSONparse(d.text).ok
       THEN IF debug /\ JSONparse(d.text).value.type = "null"
            THEN createEmptyCache
            ELSE JSONparse(d.text).value
       ELSE createEmptyCache
  ELSE createEmptyCache

\* this.cache.files[filePath] raises a TypeError when this.cache is null or
\* has no files member
FilesReadable(cache) == cache.type = "object" /\ cache.hasFiles

\* a comparison that takes a stored entry as proof that nothing changed
hasChangedByPresence(cache, filePath, content) ==
  IF ~FilesReadable(cache)
  THEN [ok |-> FALSE, error |-> "TypeError", value |-> FALSE]
  ELSE [ok |-> TRUE, error |-> "",
        value |-> filePath \notin Range(cache.files.keys)]

\* CacheEngine.hasChanged
hasChanged(cache, filePath, content) ==
  IF ~FilesReadable(cache)
  THEN [ok |-> FALSE, error |-> "TypeError", value |-> FALSE]
  ELSE [ok |-> TRUE, error |-> "",
        value |-> IF filePath \notin Range(cache.files.keys)
                  THEN TRUE
                  ELSE cache.files.entries[filePath].hash
                         # calculateHash(content)]

\* CacheEngine.getChangedFiles: the changed or new current files in the
\* order of the map, then the stored paths the map does not have
getChangedFiles(cache, currentFiles) ==
  IF ~FilesReadable(cache)
  THEN [ok |-> FALSE, error |-> "TypeError", value |-> << >>]
  ELSE [ok |-> TRUE, error |-> "",
        value |->
          SelectSeq(currentFiles.keys,
                    LAMBDA p : hasChanged(cache, p, currentFiles.vals[p]).value)
          \o SelectSeq(cache.files.keys,
                       LAMBDA p : p \notin Range(currentFiles.keys))]

\* CacheEngine.setCacheEntry: an assignment to files[filePath]; a new key
\* goes last, an existing key keeps its place
setCacheEntry(cache, filePath, content, nodes, edges) ==
  [cache EXCEPT !.files =
     [keys    |-> SetAdd(@.keys, filePath),
      entries |-> MapSet(@.entries, filePath,
                         [hash  |-> calculateHash(content),
                          nodes |-> nodes,
                          edges |-> edges])]]

\* CacheEngine.removeEntry: delete this.cache.files[filePath]
removeEntry(cache, filePath) ==
  [cache EXCEPT !.files =
     [keys    |-> SelectSeq(@.keys, LAMBDA p : p # filePath),
      entries |-> [p \in (DOMAIN @.entries) \ {filePath} |-> @.entries[p]]]]

\* how the write of the cache file in save() can end
WriteOutcomes == {"written", "refused", "emptied", "truncated"}

\* CacheEngine.save: the document replaces the cache file.  What
\* writeFileSync throws is caught: refused at the open (or at mkdirSync) it
\* leaves the file as it was; after the open has truncated the file, a
\* write that fails at once (EFBIG, ENOSPC) leaves it empty and one that
\* fails part way leaves a truncated document.  The TypeError that
\* `this.cache.timestamp = ...` raises on a null cache comes before the
\* write and is caught too
save(cache, d, write) ==
  IF cache.type = "null" THEN d
  ELSE CASE write = "written"   -> CacheFile(JSONstringify(cache))
         [] write = "refused"   -> d
         [] write = "emptied"   -> CacheFile(EmptyText)
         [] write = "truncated" -> CacheFile(GarbageText)

\* CacheEngine.clear, the file part: an existing readable file is
\* overwritten with the empty text; a failing read or write is caught
clearFile(d, writable) ==
  IF d.exists /\ d.readable /\ writable THEN CacheFile(EmptyText) ELSE d

\* no CacheEngine yet (this.cacheEngine = null), and a constructed one
NoCacheEngine == [constructed |-> FALSE, cache |-> JsonNull]

NewCacheEngineOn(d, debug) ==
  [constructed |-> TRUE, cache |-> loadCache(d, debug)]

(* --------------------------- state machine ---------------------------- *)

\* no WorkerPool constructed
NoPool ==
  [ concurrency |-> 0, tasks |-> << >>, taskQueue |-> << >>,
    activeWorkers |-> {}, results |-> << >>, deferred |-> 0,
    tasksCompleted |-> 0, tasksFailed |-> 0,
    phase |-> "none", idx |-> 0, elapsed |-> 0, intervals |-> {},
    out |-> << >> ]

\* no analyze() call in progress
NoCalls == << >>

\* the cache counters of the engine's stats field as the constructor sets
\* them
NoStats == [cacheHits |-> 0, cacheMisses |-> 0]

\* a Graph used on its own: no project, no cache file, no engine
NoEngine ==
  /\ files = << >>
  /\ disk = NoCacheFile
  /\ cacheEngine = NoCacheEngine
  /\ analyzers = << >>
  /\ pool = NoPool
  /\ calls = NoCalls
  /\ stats = NoStats

Init ==
  /\ graph = EmptyGraph
  /\ last = [op |-> "new"]
  /\ addCount = 0
  /\ NoEngine

AddNode(id, attrs) ==
  /\ addCount < MaxAddNode
  /\ LET node == MakeNode(id, attrs)
     IN  /\ graph' = addNode(graph, node)
         /\ last' = [op |-> "addNode", node |-> node, ok |-> TRUE]
  /\ addCount' = addCount + 1
  /\ UNCHANGED envvars

AddEdge(from, to, type, metadata) ==
  LET r == addEdge(graph, from, to, type, metadata)
  IN  /\ Len(getAllEdges(r.graph)) <= MaxEdges
      /\ graph' = r.graph
      /\ last' = [op |-> "addEdge", from |-> from, to |-> to, type |-> type,
                  metadata |-> metadata,
                  ok |-> r.ok, error |-> r.error]
      /\ UNCHANGED <<addCount, envvars>>

RemoveNodeSimulation(nodeId) ==
  LET r == removeNodeSimulation(graph, nodeId)
  IN  /\ graph' = r.graph
      /\ last' = [op |-> "removeNodeSimulation", nodeId |-> nodeId,
                  ok |-> r.ok, error |-> r.error, result |-> r.result]
      /\ UNCHANGED <<addCount, envvars>>

GetStats ==
  /\ last' = [op |-> "getStats", ok |-> TRUE, result |-> getStats(graph)]
  /\ UNCHANGED <<graph, addCount, envvars>>

Next ==
  \/ \E in \in NodeInputs : AddNode(in[1], in[2])
  \/ \E from \in NodeIds, to \in NodeIds, type \in EdgeTypes :
       AddEdge(from, to, type, NoMetadata)
  \/ \E nodeId \in NodeIds : RemoveNodeSimulation(nodeId)

Spec == Init /\ [][Next]_vars

(* ---------------- simulation runs on a populated graph ---------------- *)

RECURSIVE AddNodes(_, _)
\* an analysis pass adding its nodes: addNode for each input in turn
AddNodes(g, inputs) ==
  IF inputs = << >> THEN g
  ELSE AddNodes(addNode(g, MakeNode(Head(inputs)[1], Head(inputs)[2])),
                Tail(inputs))

RECURSIVE AddEdges(_, _)
\* then its edges: addEdge(from, to, type) for each pair in turn
AddEdges(g, pairs) ==
  IF pairs = << >> THEN g
  ELSE AddEdges(addEdge(g, Head(pairs)[1], Head(pairs)[2], "calls", NoMetadata).graph,
                Tail(pairs))

\* the call sequences that populate the graph: A, B and C are added once
\* each, then up to MaxSimEdges edges between them
EdgeScripts ==
  UNION { [1..k -> NodeIds \X NodeIds] : k \in 0..MaxSimEdges }

NodeScripts ==
  { <<a, b, c>> : a \in { in \in NodeInputs : in[1] = "A" },
                  b \in { in \in NodeInputs : in[1] = "B" },
                  c \in { in \in NodeInputs : in[1] = "C" } }

SimInit ==
  /\ \E ns \in NodeScripts, es \in EdgeScripts :
       graph = AddEdges(AddNodes(EmptyGraph, ns), es)
  /\ last = [op |-> "new"]
  /\ addCount = 3
  /\ NoEngine

SimNext ==
  \/ \E nodeId \in NodeIds : RemoveNodeSimulation(nodeId)
  \/ GetStats

\* removal simulations on every graph of three nodes and up to MaxSimEdges
\* edges built without re-using an id
SimSpec == SimInit /\ [][SimNext]_vars

(* ------------- simulation runs on one node of any size --------------- *)

\* a single node A whose loc sweeps 0..MaxLoc, with or without self-edges:
\* its score 0.4 * loc (+ 5 with a self-edge) crosses every level boundary
LevelNext ==
  \/ \E loc \in 0..MaxLoc :
       AddNode("A", [type |-> "function", name |-> "fn", loc |-> loc])
  \/ AddEdge("A", "A", "calls", NoMetadata)
  \/ RemoveNodeSimulation("A")

LevelSpec == Init /\ [][LevelNext]_vars

(* -------------------------- unused detector --------------------------- *)

\* findUnusedNodes: entryPointTypes
EntryPointTypes == {"symfony_route", "client_call", "api_endpoint"}

\* number of elements of the list es that satisfy edge.to = id
IncomingCount(es, id) == Cardinality({ i \in 1..Len(es) : es[i].to = id })

\* UnusedDetector.findUnusedNodes
findUnusedNodes(nodes, es) ==
  LET Unused(node) ==
        /\ IncomingCount(es, node.id) = 0
        /\ node.type \notin EntryPointTypes
  IN  SelectSeq(nodes, Unused)

\* the ids of a list of nodes: nodes.map(n => n.id)
Ids(nodes) == [ i \in 1..Len(nodes) |-> nodes[i].id ]

\* UnusedDetector.findDeadServices
findDeadServices(nodes, es) ==
  LET Counted(e) == e.type = "injects" \/ e.type = "depends_on"
      Dead(node) ==
        /\ node.type = "symfony_service"
        /\ IncomingCount(SelectSeq(es, Counted), node.id) = 0
  IN  Ids(SelectSeq(nodes, Dead))

\* UnusedDetector.findDeadEndpoints
findDeadEndpoints(nodes, es) ==
  LET Refers(e) == e.type = "route_to_controller" \/ e.type = "exposes"
      referencedControllers == { e.to : e \in Range(SelectSeq(es, Refers)) }
      Dead(node) ==
        node.type = "symfony_route" /\ node.id \notin referencedControllers
  IN  Ids(SelectSeq(nodes, Dead))

\* UnusedDetector.findUnreferencedExports: usedExports collects the names
\* under metadata.imports of every edge of type imports
findUnreferencedExports(nodes, es) ==
  LET usedExports == UNION { Range(es[i].metadata.imports) :
                             i \in { j \in 1..Len(es) : es[j].type = "imports" } }
      Unreferenced(node) ==
        /\ (node.type = "export" \/ node.type = "function")
        /\ node.id \notin usedExports
  IN  Ids(SelectSeq(nodes, Unreferenced))

\* UnusedDetector.analyze: the count of nodes per type
NodesByType(nodes) ==
  [ t \in { nodes[i].type : i \in 1..Len(nodes) } |->
      Cardinality({ i \in 1..Len(nodes) : nodes[i].type = t }) ]

\* UnusedDetector.analyze
analyze(g) ==
  LET allNodes == getAllNodes(g)
      allEdges == getAllEdges(g)
  IN  [ unusedNodes         |-> findUnusedNodes(allNodes, allEdges),
        deadServices        |-> findDeadServices(allNodes, allEdges),
        deadEndpoints       |-> findDeadEndpoints(allNodes, allEdges),
        unreferencedExports |-> findUnreferencedExports(allNodes, allEdges),
        nodesByType         |-> NodesByType(allNodes) ]

\* a marker that flips metadata.unused where the code sets it to true
markUnusedMetadataToggle(g) ==
  LET unusedIds == Range(Ids(findUnusedNodes(getAllNodes(g), getAllEdges(g))))
  IN  [g EXCEPT !.nodes =
         [ id \in DOMAIN g.nodes |->
             IF id \in unusedIds
             THEN [g.nodes[id] EXCEPT !.metadata =
                     IF "unused" \in @ THEN @ \ {"unused"} ELSE @ \cup {"unused"}]
             ELSE g.nodes[id] ]]

\* UnusedDetector.markUnusedMetadata: metadata.unused = true on every node
\* of findUnusedNodes, the other nodes are not touched
markUnusedMetadata(g) ==
  LET unusedIds == Range(Ids(findUnusedNodes(getAllNodes(g), getAllEdges(g))))
  IN  [g EXCEPT !.nodes =
         [ id \in DOMAIN g.nodes |->
             IF id \in unusedIds
             THEN [g.nodes[id] EXCEPT !.metadata = @ \cup {"unused"}]
             ELSE g.nodes[id] ]]

\* the (id, attributes) pairs of the detector runs: node types as the
\* analyzers create them
DetectNodeInputs ==
  { <<"A", [type |-> "endpoint",        name |-> "GET /a", loc |-> 1]>>,
    <<"A", [type |-> "client_call",     name |-> "GET /x", loc |-> 1]>>,
    <<"B", [type |-> "symfony_service", name |-> "svc",    loc |-> 25]>>,
    <<"C", [type |-> "function",        name |-> "fn",     loc |-> 10]>>,
    <<"C", [type |-> "symfony_route",   name |-> "route",  loc |-> 1]>> }

DetectNodeScripts ==
  { <<a, b, c>> : a \in { in \in DetectNodeInputs : in[1] = "A" },
                  b \in { in \in DetectNodeInputs : in[1] = "B" },
                  c \in { in \in DetectNodeInputs : in[1] = "C" } }

DetectInit ==
  /\ \E ns \in DetectNodeScripts : graph = AddNodes(EmptyGraph, ns)
  /\ last = [op |-> "new"]
  /\ addCount = 3
  /\ NoEngine

Analyze ==
  /\ last' = [op |-> "analyze", result |-> analyze(graph)]
  /\ UNCHANGED <<graph, addCount, envvars>>

\* repeat tells that the call directly follows another markUnusedMetadata
MarkUnusedMetadata ==
  /\ graph' = markUnusedMetadata(graph)
  /\ last' = [op |-> "markUnusedMetadata",
              repeat |-> (last.op = "markUnusedMetadata")]
  /\ UNCHANGED <<addCount, envvars>>

\* the edges the detector runs see: calls edges without metadata and
\* imports edges listing the imported name C
DetectEdgeInputs ==
  { <<"calls",   NoMetadata>>,
    <<"imports", [imports |-> << "C" >>]>> }

DetectNext ==
  \/ \E from \in NodeIds, to \in NodeIds, in \in DetectEdgeInputs :
       AddEdge(from, to, in[1], in[2])
  \/ Analyze
  \/ MarkUnusedMetadata

\* the detector on graphs of three nodes that gain edges between its runs
DetectSpec == DetectInit /\ [][DetectNext]_vars

(* ---------------------------- cache engine ---------------------------- *)

\* the project changes between calls: a file is written or deleted
WriteFile(p, src) ==
  /\ files' = MapSet(files, p, src)
  /\ last' = [op |-> "writeFile", filePath |-> p]
  /\ UNCHANGED <<stats, pool, calls, graph, addCount, disk, cacheEngine, analyzers>>

DeleteFile(p) ==
  /\ p \in DOMAIN files
  /\ files' = [q \in (DOMAIN files) \ {p} |-> files[q]]
  /\ last' = [op |-> "deleteFile", filePath |-> p]
  /\ UNCHANGED <<stats, pool, calls, graph, addCount, disk, cacheEngine, analyzers>>

\* new CacheEngine(projectRoot, debug)
NewCacheEngine(debug) ==
  /\ cacheEngine' = NewCacheEngineOn(disk, debug)
  /\ last' = [op |-> "newCacheEngine", debug |-> debug, ok |-> TRUE]
  /\ UNCHANGED <<stats, pool, calls, graph, addCount, files, disk, analyzers>>

HasChanged(p, content) ==
  /\ cacheEngine.constructed
  /\ LET r == hasChanged(cacheEngine.cache, p, content)
     IN  last' = [op |-> "hasChanged", filePath |-> p, content |-> content,
                  ok |-> r.ok, error |-> r.error, value |-> r.value]
  /\ UNCHANGED <<graph, addCount, envvars>>

\* getChangedFiles on the map of the project's current files
GetChangedFiles ==
  /\ cacheEngine.constructed
  /\ LET r == getChangedFiles(cacheEngine.cache, FileMap(files))
     IN  last' = [op |-> "getChangedFiles", currentFiles |-> FileMap(files),
                  ok |-> r.ok, error |-> r.error, value |-> r.value]
  /\ UNCHANGED <<graph, addCount, envvars>>

\* setCacheEntry for a current file; the assignment raises a TypeError on
\* a cache without a files member
SetCacheEntry(p) ==
  /\ cacheEngine.constructed
  /\ p \in DOMAIN files
  /\ IF FilesReadable(cacheEngine.cache)
     THEN /\ cacheEngine' =
               [cacheEngine EXCEPT !.cache =
                  setCacheEntry(@, p, files[p], << >>, << >>)]
          /\ last' = [op |-> "setCacheEntry", filePath |-> p, ok |-> TRUE]
     ELSE /\ cacheEngine' = cacheEngine
          /\ last' = [op |-> "setCacheEntry", filePath |-> p, ok |-> FALSE]
  /\ UNCHANGED <<stats, pool, calls, graph, addCount, files, disk, analyzers>>

RemoveEntry(p) ==
  /\ cacheEngine.constructed
  /\ IF FilesReadable(cacheEngine.cache)
     THEN /\ cacheEngine' = [cacheEngine EXCEPT !.cache = removeEntry(@, p)]
          /\ last' = [op |-> "removeEntry", filePath |-> p, ok |-> TRUE]
     ELSE /\ cacheEngine' = cacheEngine
          /\ last' = [op |-> "removeEntry", filePath |-> p, ok |-> FALSE]
  /\ UNCHANGED <<stats, pool, calls, graph, addCount, files, disk, analyzers>>

Save(write) ==
  /\ cacheEngine.constructed
  /\ disk' = save(cacheEngine.cache, disk, write)
  /\ last' = [op |-> "save", ok |-> TRUE]
  /\ UNCHANGED <<stats, pool, calls, graph, addCount, files, cacheEngine, analyzers>>

Clear(writable) ==
  /\ cacheEngine.constructed
  /\ cacheEngine' = [cacheEngine EXCEPT !.cache = createEmptyCache]
  /\ disk' = clearFile(disk, writable)
  /\ last' = [op |-> "clear", ok |-> TRUE]
  /\ UNCHANGED <<stats, pool, calls, graph, addCount, files, analyzers>>

\* a CacheEngine of a project that has no cache file yet
CacheInit ==
  /\ graph = EmptyGraph
  /\ last = [op |-> "new"]
  /\ addCount = 0
  /\ files = << >>
  /\ disk = NoCacheFile
  /\ cacheEngine = NewCacheEngineOn(NoCacheFile, FALSE)
  /\ analyzers = << >>
  /\ pool = NoPool
  /\ calls = NoCalls
  /\ stats = NoStats

CacheNext ==
  \/ \E p \in Paths : \E src \in Sources[p] : WriteFile(p, src)
  \/ \E p \in Paths : DeleteFile(p)
  \/ \E debug \in BOOLEAN : NewCacheEngine(debug)
  \/ \E p \in Paths : \E content \in Sources[p] : HasChanged(p, content)
  \/ GetChangedFiles
  \/ \E p \in Paths : SetCacheEntry(p)
  \/ \E p \in Paths : RemoveEntry(p)
  \/ \E write \in WriteOutcomes : Save(write)
  \/ \E writable \in BOOLEAN : Clear(writable)

\* the cache engine on cache files it wrote itself
CacheSpec == CacheInit /\ [][CacheNext]_vars

\* what a cache file can hold when the engine starts
CacheFileStates ==
  { NoCacheFile,
    UnreadableCacheFile,
    CacheFile(EmptyText),
    CacheFile(GarbageText),
    CacheFile(JSONstringify(JsonNull)),
    CacheFile(JSONstringify(JsonEmptyObject)),
    CacheFile(JSONstringify(createEmptyCache)) }

LoadInit ==
  /\ graph = EmptyGraph
  /\ last = [op |-> "new"]
  /\ addCount = 0
  /\ files \in ProjectStates
  /\ disk \in CacheFileStates
  /\ cacheEngine = NoCacheEngine
  /\ analyzers = << >>
  /\ pool = NoPool
  /\ calls = NoCalls
  /\ stats = NoStats

LoadNext ==
  \/ \E debug \in BOOLEAN : NewCacheEngine(debug)
  \/ \E p \in Paths : \E content \in Sources[p] : HasChanged(p, content)
  \/ GetChangedFiles

\* a CacheEngine constructed over any state of the cache file
LoadSpec == LoadInit /\ [][LoadNext]_vars

(* ------------------------------ engine -------------------------------- *)

\* number of edges in the engine's graph: every uncached run inserts the
\* edges of its files again
MaxEngineEdges == 2

\* the analyzers: name and supportedExtensions; rejectsOn lists the files
\* on which analyze() rejects (the built-in analyzers catch their own
\* errors and never reject)
TypeScriptAnalyzer ==
  [name |-> "TypeScriptAnalyzer", supportedExtensions |-> {".ts", ".tsx"},
   rejectsOn |-> {}]

ReactAnalyzer ==
  [name |-> "ReactAnalyzer", supportedExtensions |-> {".jsx", ".tsx"},
   rejectsOn |-> {}]

SymfonyAnalyzer ==
  [name |-> "SymfonyAnalyzer", supportedExtensions |-> {".php"},
   rejectsOn |-> {}]

EndpointAnalyzer ==
  [name |-> "EndpointAnalyzer",
   supportedExtensions |-> {".ts", ".tsx", ".js", ".jsx", ".php"},
   rejectsOn |-> {}]

\* an analyzer a caller adds whose analyze() rejects, as in the
\* error-handling test, on the given files
ErrorAnalyzer(paths) ==
  [name |-> "ErrorAnalyzer", supportedExtensions |-> {".ts"},
   rejectsOn |-> paths]

\* AnalysisEngine.registerAnalyzers
registerAnalyzers ==
  << TypeScriptAnalyzer, ReactAnalyzer, SymfonyAnalyzer, EndpointAnalyzer >>

\* AnalysisEngine.addAnalyzer and removeAnalyzer on the analyzer list
addAnalyzer(ans, an) == Append(ans, an)

removeAnalyzer(ans, name) == SelectSeq(ans, LAMBDA a : a.name # name)

\* FileInfo.extension: every modelled path is a .ts file
Extension(filePath) == ".ts"

RECURSIVE visit(_, _, _)
\* TypeScriptAnalyzer.visit: a function node `${relPath}#${name}` for each
\* function declaration, in document order
visit(g, relPath, decls) ==
  IF decls = << >>
  THEN g
  ELSE visit(addNode(g, MakeNode(relPath \o "#" \o Head(decls).name,
                                 [type |-> "function",
                                  name |-> Head(decls).name,
                                  loc  |-> Head(decls).loc])),
             relPath, Tail(decls))

\* TypeScriptAnalyzer.analyze: the file node, then the declarations (the
\* engine runs in the project root, so relPath is the relative path)
TypeScriptAnalyze(g, filePath, content) ==
  visit(addNode(g, MakeNode(filePath, [type |-> "file", name |-> filePath,
                                       loc  |-> content.lines])),
        filePath, content.decls)

\* analyzer.analyze(context): a rejection, or the graph with the analyzer's
\* nodes.  EndpointAnalyzer finds no route or client call in the modelled
\* sources and adds nothing.
runAnalyzer(an, g, filePath, content) ==
  IF filePath \in an.rejectsOn
  THEN [ok |-> FALSE, graph |-> g]
  ELSE IF an.name = "TypeScriptAnalyzer"
       THEN [ok |-> TRUE, graph |-> TypeScriptAnalyze(g, filePath, content)]
       ELSE [ok |-> TRUE, graph |-> g]

\* TypeScriptEdgeDetector.detect: in document order an imports edge from
\* the file to each imported file and a defines edge from the file to the
\* bare name of each declared function; postProcessEdges drops
\* self-references (the modelled sources have no duplicate edges)
detect(filePath, content) ==
  SelectSeq(
    [ i \in 1..Len(content.imports) |->
        [source |-> filePath, target |-> content.imports[i].module,
         type |-> "imports",
         metadata |-> [imports |-> content.imports[i].names]] ]
    \o
    [ i \in 1..Len(content.decls) |->
        [source |-> filePath, target |-> content.decls[i].name,
         type |-> "defines", metadata |-> NoMetadata] ],
    LAMBDA e : e.source # e.target)

RECURSIVE insertEdges(_, _)
\* for (const edge of tsEdges) this.graph.addEdge(...): stops at the first
\* edge addEdge refuses, the edges before it stay inserted
insertEdges(g, es) ==
  IF es = << >>
  THEN [ok |-> TRUE, graph |-> g]
  ELSE LET r == addEdge(g, Head(es).source, Head(es).target, Head(es).type,
                        Head(es).metadata)
       IN  IF r.ok THEN insertEdges(r.graph, Tail(es))
                   ELSE [ok |-> FALSE, graph |-> g]

\* one pass of the loop body of analyzeFile for a compatible analyzer: the
\* try block, everything thrown inside it is caught (caught collects what)
tryAnalyzer(st, an, filePath, content) ==
  LET a == runAnalyzer(an, st.graph, filePath, content)
      e == insertEdges(a.graph, detect(filePath, content))
  IN  IF ~a.ok
      THEN [st EXCEPT !.caught = @ \cup {"Analyzer error"}]
      ELSE IF ~e.ok
           THEN [graph |-> e.graph, caught |-> st.caught \cup {"Node not found"}]
           ELSE [graph |-> e.graph, caught |-> st.caught]

RECURSIVE analyzeFile(_, _, _, _)
\* AnalysisEngine.analyzeFile: every compatible analyzer in turn
analyzeFile(st, ans, filePath, content) ==
  IF ans = << >>
  THEN st
  ELSE IF Extension(filePath) \notin Head(ans).supportedExtensions
       THEN analyzeFile(st, Tail(ans), filePath, content)
       ELSE analyzeFile(tryAnalyzer(st, Head(ans), filePath, content),
                        Tail(ans), filePath, content)

RECURSIVE analyzeFiles(_, _, _, _)
\* for (const file of filesToAnalyze) await this.analyzeFile(...)
analyzeFiles(st, ans, filePaths, fs) ==
  IF filePaths = << >>
  THEN st
  ELSE analyzeFiles(analyzeFile(st, ans, Head(filePaths), fs[Head(filePaths)]),
                    ans, Tail(filePaths), fs)

RECURSIVE setCacheEntries(_, _, _)
\* the save loop: an entry for each analysed file; no node or edge of the
\* modelled analyzers has metadata.file, so the id lists are empty
setCacheEntries(cache, filePaths, fs) ==
  IF filePaths = << >>
  THEN cache
  ELSE setCacheEntries(
         setCacheEntry(cache, Head(filePaths), fs[Head(filePaths)], << >>, << >>),
         Tail(filePaths), fs)

RECURSIVE Gcd(_, _)
Gcd(a, b) == IF b = 0 THEN a ELSE Gcd(b, a % b)

\* the fractions unused / nodes, in lowest terms, for which the exact
\* percentage ends in .5 and the double unused / nodes * 100 lies below it
\* (23 / 40 * 100 is 57.49999999999999); every other percentage that ends
\* in .5 is computed exactly or from above
HalfBelow == { <<23, 40>>, <<29, 200>>, <<57, 200>>, <<113, 200>> }

\* Math.round(unused / nodes * 100) || 0: the quotient is rounded to the
\* nearest integer, a half upwards, on the double the division and the
\* multiplication give; 0 / 0 is NaN, which `|| 0` turns into 0
deadCodeEstimate(unused, nodes) ==
  IF nodes = 0 THEN 0
  ELSE LET q == (100 * unused) \div nodes
           r == (100 * unused) % nodes
           g == Gcd(unused, nodes)
       IN  IF 2 * r < nodes THEN q
           ELSE IF 2 * r > nodes THEN q + 1
           ELSE IF << unused \div g, nodes \div g >> \in HalfBelow THEN q
           ELSE q + 1

\* AnalysisEngine.analyze({enableCache, debug}) from call to return with
\* nothing else running in between, on an engine e = [graph, cacheEngine,
\* analyzers] over the project fs and the cache file d; write tells how
\* the write of save() ends.  The result holds the outcome of
\* the promise, the fields of the engine and the cache file after the call.
engineAnalyze(e, fs, d, enableCache, debug, write) ==
  LET ce      == IF enableCache THEN NewCacheEngineOn(d, debug) ELSE e.cacheEngine
      walked  == Walk(fs)
      changed == IF ce.constructed
                 THEN getChangedFiles(ce.cache, FileMap(fs))
                 ELSE [ok |-> TRUE, error |-> "", value |-> << >>]
  IN  IF ~changed.ok
      THEN [ outcome     |-> "rejected",
             graph       |-> e.graph,
             cacheEngine |-> ce,
             disk        |-> d,
             changed     |-> << >>,
             analysed    |-> << >>,
             caught      |-> {},
             saved       |-> FALSE,
             stats       |-> [nodesCreated |-> 0, edgesCreated |-> 0,
                              cacheHits |-> 0, cacheMisses |-> 0,
                              unusedNodesCount |-> 0, deadCodeEstimate |-> 0] ]
      ELSE
        LET filesToAnalyze ==
              IF ce.constructed
              THEN SelectSeq(walked, LAMBDA p : p \in Range(changed.value))
              ELSE walked
            st     == analyzeFiles([graph |-> e.graph, caught |-> {}],
                                   e.analyzers, filesToAnalyze, fs)
            unused == analyze(st.graph).unusedNodes
            marked == markUnusedMetadata(st.graph)
            cache2 == IF ce.constructed
                      THEN setCacheEntries(ce.cache, filesToAnalyze, fs)
                      ELSE ce.cache
        IN  [ outcome     |-> "resolved",
              graph       |-> marked,
              cacheEngine |-> [ce EXCEPT !.cache = cache2],
              disk        |-> IF ce.constructed THEN save(cache2, d, write) ELSE d,
              changed     |-> changed.value,
              analysed    |-> filesToAnalyze,
              caught      |-> st.caught,
              saved       |-> ce.constructed /\ write = "written" /\ cache2.type # "null",
              stats       |->
                [nodesCreated     |-> Len(getAllNodes(marked)),
                 edgesCreated     |-> Len(getAllEdges(marked)),
                 cacheHits        |-> IF ce.constructed
                                      THEN Len(walked) - Len(filesToAnalyze) ELSE 0,
                 cacheMisses      |-> IF ce.constructed
                                      THEN Len(filesToAnalyze) ELSE 0,
                 unusedNodesCount |-> Len(unused),
                 deadCodeEstimate |->
                   deadCodeEstimate(Len(unused), Len(getAllNodes(marked)))] ]

(* ------------------- analyze() between its awaits -------------------- *)

\* number of entries of the analyzer list
MaxAnalyzers == 5

\* number of analyze() calls made on the engine
MaxCalls == 2

\* the analyzers the callers add
AnalyzerInputs == { ErrorAnalyzer({"a.ts", "b.ts"}), TypeScriptAnalyzer }

\* analyzeFile from entry number `from` of the array it iterates up to its
\* next await: the incompatible analyzers are skipped and analyze(context)
\* of the first compatible one runs (its body is synchronous); the call
\* then waits for that promise, or, with no entry left, for the promise of
\* analyzeFile
enterAnalyzer(g, c, from) ==
  LET filePath   == c.toAnalyze[c.fi]
      compatible == { k \in from..Len(c.ans) :
                        Extension(filePath) \in c.ans[k].supportedExtensions }
  IN  IF compatible = {}
      THEN [graph |-> g,
            call  |-> [c EXCEPT !.pc = "file", !.ans = << >>, !.live = FALSE,
                                !.ai = 0, !.ok = TRUE]]
      ELSE LET k == CHOOSE x \in compatible : \A y \in compatible : x <= y
               a == runAnalyzer(c.ans[k], g, filePath, c.fs[filePath])
           IN  [graph |-> a.graph,
                call  |-> [c EXCEPT !.pc = "analyzer", !.ai = k, !.ok = a.ok]]

\* analyzeFile is called for file number fi of the call: the loop takes
\* the engine's analyzer array ans as it is now
enterFile(g, c, fi, ans) ==
  enterAnalyzer(g, [c EXCEPT !.fi = fi, !.ans = ans, !.live = TRUE], 1)

\* analyze() from the end of the file loop to its return: unused detection
\* and marking, the stats, then the entries of the files of this call are
\* set on the engine's current cache engine, which is saved; setCacheEntry
\* raises a TypeError on a cache without a files member and analyze()
\* rejects with it.  save() catches a failing write, so analyze() resolves
\* however the write ends
finishAnalyze(g, ce, d, st, c, write) ==
  LET unused == analyze(g).unusedNodes
      marked == markUnusedMetadata(g)
      throws == ce.constructed /\ c.toAnalyze # << >> /\ ~FilesReadable(ce.cache)
      cache2 == IF ce.constructed /\ ~throws
                THEN setCacheEntries(ce.cache, c.toAnalyze, c.fs)
                ELSE ce.cache
      res    == [ outcome  |-> IF throws THEN "rejected" ELSE "resolved",
                  changed  |-> c.changed,
                  analysed |-> c.toAnalyze,
                  caught   |-> c.caught,
                  saved    |-> /\ ce.constructed /\ ~throws
                               /\ cache2.type # "null" /\ write = "written",
                  write    |-> IF ce.constructed /\ ~throws THEN write
                                                                ELSE "none",
                  stats    |->
                    IF throws
                    THEN [nodesCreated |-> 0, edgesCreated |-> 0,
                          cacheHits |-> 0, cacheMisses |-> 0,
                          unusedNodesCount |-> 0, deadCodeEstimate |-> 0]
                    ELSE [nodesCreated     |-> Len(getAllNodes(marked)),
                          edgesCreated     |-> Len(getAllEdges(marked)),
                          cacheHits        |-> st.cacheHits,
                          cacheMisses      |-> st.cacheMisses,
                          unusedNodesCount |-> Len(unused),
                          deadCodeEstimate |->
                            deadCodeEstimate(Len(unused), Len(getAllNodes(marked)))] ]
  IN  [ graph       |-> marked,
        cacheEngine |-> [ce EXCEPT !.cache = cache2],
        disk        |-> IF ce.constructed /\ ~throws THEN save(cache2, d, write)
                                                      ELSE d,
        call        |-> [c EXCEPT !.pc = "done", !.result = res] ]

\* the result of a call that has not returned
NoResult ==
  [ outcome |-> "pending", changed |-> << >>, analysed |-> << >>,
    caught |-> {}, saved |-> FALSE, write |-> "none",
    stats |-> [nodesCreated |-> 0, edgesCreated |-> 0,
               cacheHits |-> 0, cacheMisses |-> 0,
               unusedNodesCount |-> 0, deadCodeEstimate |-> 0] ]

\* the calls that have not returned
Pending == { i \in 1..Len(calls) : calls[i].pc # "done" }

\* new AnalysisEngine(): an empty graph, no cache engine, the registered
\* analyzers
NewEngine ==
  /\ graph' = EmptyGraph
  /\ cacheEngine' = NoCacheEngine
  /\ analyzers' = registerAnalyzers
  /\ stats' = NoStats
  /\ last' = [op |-> "newEngine"]
  /\ UNCHANGED <<pool, calls, addCount, files, disk>>

\* engine.addAnalyzer(an): a push onto the analyzer array, seen by the
\* analyzeFile loops that iterate this array
AddAnalyzer(an) ==
  /\ Len(analyzers) < MaxAnalyzers
  /\ analyzers' = addAnalyzer(analyzers, an)
  /\ calls' = [ i \in 1..Len(calls) |->
                  [calls[i] EXCEPT !.steady = @ /\ calls[i].pc = "done",
                                   !.ans = IF calls[i].live
                                           THEN addAnalyzer(@, an) ELSE @] ]
  /\ last' = [op |-> "addAnalyzer", name |-> an.name]
  /\ UNCHANGED <<graph, addCount, files, disk, cacheEngine, pool, stats>>

\* engine.removeAnalyzer(name): the field gets a new filtered array; the
\* loops in progress keep the array they started on
RemoveAnalyzer(name) ==
  /\ analyzers' = removeAnalyzer(analyzers, name)
  /\ calls' = [ i \in 1..Len(calls) |->
                  [calls[i] EXCEPT !.steady = @ /\ calls[i].pc = "done",
                                   !.live = FALSE] ]
  /\ last' = [op |-> "removeAnalyzer", name |-> name]
  /\ UNCHANGED <<graph, addCount, files, disk, cacheEngine, pool, stats>>

\* analyze({enableCache, debug}) is called: it runs up to
\* `await walker.walk()`; the cache engine field is replaced when the cache
\* is enabled, and walk() has read the files when it returns its promise.
\* this.debug only switches logging from there on.
\* before keeps what the engine and the cache file were at the call,
\* afterSaved whether the caller's previous statement was a cached run over
\* the same files that saved the cache, pending how many calls had not returned, steady whether
\* the analyzer list stayed as it was during the call
StartAnalyze(enableCache, debug) ==
  /\ cacheEngine' = IF enableCache THEN NewCacheEngineOn(disk, debug)
                                   ELSE cacheEngine
  /\ calls' = Append(calls,
                     [ enableCache |-> enableCache,
                       pc |-> "walk", fs |-> files,
                       changed |-> << >>, toAnalyze |-> << >>,
                       fi |-> 0, ai |-> 0, ans |-> << >>, live |-> FALSE,
                       ok |-> TRUE, caught |-> {},
                       before |-> [graph |-> graph, cacheEngine |-> cacheEngine,
                                   disk |-> disk, analyzers |-> analyzers],
                       afterSaved |-> /\ last.op = "engineAnalyze"
                                      /\ last.enableCache
                                      /\ last.outcome = "resolved"
                                      /\ last.saved
                                      /\ last.fs = files,
                       pending |-> Cardinality(Pending),
                       steady |-> TRUE,
                       result |-> NoResult ])
  /\ last' = [op |-> "analyzeStart"]
  /\ UNCHANGED <<graph, addCount, files, disk, analyzers, pool, stats>>

\* call i continues after `await walker.walk()`: the changed files are asked
\* of the engine's current cache engine, the cache counters are set, and
\* the file loop starts; getChangedFiles raises a TypeError on a cache
\* without a files member and analyze() rejects with it; with no file to
\* analyse the call runs on to its return, write telling how save() ends
ResumeWalk(i, write) ==
  /\ i \in 1..Len(calls)
  /\ calls[i].pc = "walk"
  /\ LET c       == calls[i]
         walked  == Walk(c.fs)
         changed == IF cacheEngine.constructed
                    THEN getChangedFiles(cacheEngine.cache, FileMap(c.fs))
                    ELSE [ok |-> TRUE, error |-> "", value |-> << >>]
         filesToAnalyze ==
                    IF cacheEngine.constructed
                    THEN SelectSeq(walked, LAMBDA p : p \in Range(changed.value))
                    ELSE walked
         st1     == IF cacheEngine.constructed
                    THEN [cacheHits   |-> Len(walked) - Len(filesToAnalyze),
                          cacheMisses |-> Len(filesToAnalyze)]
                    ELSE stats
         c1      == [c EXCEPT !.changed = changed.value,
                              !.toAnalyze = filesToAnalyze]
     IN  IF ~changed.ok
         THEN /\ calls' = [calls EXCEPT ![i] =
                             [c EXCEPT !.pc = "done",
                                       !.result = [NoResult EXCEPT
                                                     !.outcome = "rejected"]]]
              /\ UNCHANGED <<graph, cacheEngine, disk, stats>>
         ELSE IF filesToAnalyze = << >>
         THEN LET r == finishAnalyze(graph, cacheEngine, disk, st1, c1, write)
              IN  /\ graph' = r.graph
                  /\ cacheEngine' = r.cacheEngine
                  /\ disk' = r.disk
                  /\ stats' = st1
                  /\ calls' = [calls EXCEPT ![i] = r.call]
         ELSE LET r == enterFile(graph, c1, 1, analyzers)
              IN  /\ graph' = r.graph
                  /\ stats' = st1
                  /\ calls' = [calls EXCEPT ![i] = r.call]
                  /\ UNCHANGED <<cacheEngine, disk>>
  /\ UNCHANGED <<last, addCount, files, analyzers, pool>>

\* ResumeAnalyzer for an analyzeFile that gives up on the file when an
\* analyzer rejects
ResumeAnalyzerAbortOnError(i) ==
  /\ i \in 1..Len(calls)
  /\ calls[i].pc = "analyzer"
  /\ LET c        == calls[i]
         filePath == c.toAnalyze[c.fi]
         e        == insertEdges(graph, detect(filePath, c.fs[filePath]))
         c1       == [c EXCEPT !.caught =
                        IF ~c.ok THEN @ \cup {"Analyzer error"}
                        ELSE IF ~e.ok THEN @ \cup {"Node not found"} ELSE @]
         r        == IF c.ok
                     THEN enterAnalyzer(e.graph, c1, c.ai + 1)
                     ELSE enterAnalyzer(graph, c1, Len(c.ans) + 1)
     IN  /\ graph' = r.graph
         /\ calls' = [calls EXCEPT ![i] = r.call]
  /\ UNCHANGED <<last, addCount, files, disk, cacheEngine, analyzers, pool, stats>>

\* call i continues after `await analyzer.analyze(context)`: the detected
\* edges are inserted unless the analyzer rejected, whatever is thrown is
\* caught, and the loop goes on to the next compatible analyzer
ResumeAnalyzer(i) ==
  /\ i \in 1..Len(calls)
  /\ calls[i].pc = "analyzer"
  /\ LET c        == calls[i]
         filePath == c.toAnalyze[c.fi]
         e        == insertEdges(graph, detect(filePath, c.fs[filePath]))
         c1       == [c EXCEPT !.caught =
                        IF ~c.ok THEN @ \cup {"Analyzer error"}
                        ELSE IF ~e.ok THEN @ \cup {"Node not found"} ELSE @]
         r        == enterAnalyzer(IF c.ok THEN e.graph ELSE graph, c1, c.ai + 1)
     IN  /\ graph' = r.graph
         /\ calls' = [calls EXCEPT ![i] = r.call]
  /\ UNCHANGED <<last, addCount, files, disk, cacheEngine, analyzers, pool, stats>>

\* call i continues after `await this.analyzeFile(...)`: the next file, or
\* the rest of analyze() after the last one, write telling how save() ends
ResumeFile(i, write) ==
  /\ i \in 1..Len(calls)
  /\ calls[i].pc = "file"
  /\ LET c == calls[i]
     IN  IF c.fi < Len(c.toAnalyze)
         THEN LET r == enterFile(graph, c, c.fi + 1, analyzers)
              IN  /\ graph' = r.graph
                  /\ calls' = [calls EXCEPT ![i] = r.call]
                  /\ UNCHANGED <<cacheEngine, disk>>
         ELSE LET r == finishAnalyze(graph, cacheEngine, disk, stats, c, write)
              IN  /\ graph' = r.graph
                  /\ cacheEngine' = r.cacheEngine
                  /\ disk' = r.disk
                  /\ calls' = [calls EXCEPT ![i] = r.call]
  /\ UNCHANGED <<last, addCount, files, analyzers, pool, stats>>

\* the caller's `await engine.analyze(...)` returns (or throws): the
\* caller has the result and the state the call began in
AwaitReturn ==
  /\ Len(calls) = 1
  /\ calls[1].pc = "done"
  /\ last' = [ op          |-> "engineAnalyze",
               enableCache |-> calls[1].enableCache,
               fs          |-> calls[1].fs,
               before      |-> calls[1].before,
               afterSaved  |-> calls[1].afterSaved,
               outcome     |-> calls[1].result.outcome,
               changed     |-> calls[1].result.changed,
               analysed    |-> calls[1].result.analysed,
               caught      |-> calls[1].result.caught,
               saved       |-> calls[1].result.saved,
               stats       |-> calls[1].result.stats ]
  /\ calls' = NoCalls
  /\ UNCHANGED <<graph, addCount, files, disk, cacheEngine, analyzers, pool, stats>>

\* the contents a file of the analysed project is written with: one per
\* path (CacheSpec follows the changes of a content)
EngineSources == [ p \in Paths |-> { src \in Sources[p] : src.lines >= 3 } ]

\* a new engine in a project that has no files and no cache file yet
EngineInit ==
  /\ graph = EmptyGraph
  /\ last = [op |-> "newEngine"]
  /\ addCount = 0
  /\ files = << >>
  /\ disk = NoCacheFile
  /\ cacheEngine = NoCacheEngine
  /\ analyzers = registerAnalyzers
  /\ pool = NoPool
  /\ calls = NoCalls
  /\ stats = NoStats

\* the edge list the call would leave stays within MaxEngineEdges
WithinEngineEdges(enableCache, debug) ==
  Len(getAllEdges(engineAnalyze([graph |-> graph, cacheEngine |-> cacheEngine,
                                 analyzers |-> analyzers],
                                files, disk, enableCache, debug, "written").graph))
    <= MaxEngineEdges

EngineNext ==
  \/ \E p \in Paths : \E src \in EngineSources[p] :
       calls = NoCalls /\ WriteFile(p, src)
  \/ \E p \in Paths : calls = NoCalls /\ DeleteFile(p)
  \/ calls = NoCalls /\ NewEngine
  \/ \E an \in AnalyzerInputs : calls = NoCalls /\ AddAnalyzer(an)
  \/ calls = NoCalls /\ RemoveAnalyzer("TypeScriptAnalyzer")
  \/ \E enableCache \in BOOLEAN, debug \in BOOLEAN :
       calls = NoCalls /\ WithinEngineEdges(enableCache, debug)
            /\ StartAnalyze(enableCache, debug)
  \/ \E write \in WriteOutcomes : ResumeWalk(1, write)
  \/ ResumeAnalyzer(1)
  \/ \E write \in WriteOutcomes : ResumeFile(1, write)
  \/ AwaitReturn

\* a caller that awaits every analyze() before its next statement (its
\* other statements come while no call is in progress), on a
\* project that changes between the runs; the write of the cache file
\* ends in any of the ways it can
EngineSpec == EngineInit /\ [][EngineNext]_vars

\* the analyzers a caller registers on a new engine: one whose analyze()
\* rejects on some or on all of the files, and the TypeScript analyzer
\* put back behind it
FailingAnalyzerInputs ==
  { ErrorAnalyzer(paths) : paths \in (SUBSET Paths) \ {{}} }
    \cup { TypeScriptAnalyzer }

\* the engine is configured first (the caller has only constructed and
\* configured it so far), each analyzer name registered once; then the
\* project changes between awaited runs
FailureNext ==
  \/ \E an \in FailingAnalyzerInputs :
       /\ last.op \in {"newEngine", "addAnalyzer", "removeAnalyzer"}
       /\ \A k \in 1..Len(analyzers) : analyzers[k].name # an.name
       /\ AddAnalyzer(an)
  \/ /\ last.op \in {"newEngine", "addAnalyzer", "removeAnalyzer"}
     /\ RemoveAnalyzer("TypeScriptAnalyzer")
  \/ \E p \in Paths : \E src \in EngineSources[p] :
       calls = NoCalls /\ WriteFile(p, src)
  \/ \E p \in Paths : calls = NoCalls /\ DeleteFile(p)
  \/ \E enableCache \in BOOLEAN, debug \in BOOLEAN :
       calls = NoCalls /\ WithinEngineEdges(enableCache, debug)
            /\ StartAnalyze(enableCache, debug)
  \/ \E write \in WriteOutcomes : ResumeWalk(1, write)
  \/ ResumeAnalyzer(1)
  \/ \E write \in WriteOutcomes : ResumeFile(1, write)
  \/ AwaitReturn

\* a caller that registers a rejecting analyzer, as the error-handling
\* test does, and then awaits every analyze() on a project that changes
\* between the runs, the write of the cache file ending in any way
FailureSpec == EngineInit /\ [][FailureNext]_vars

\* a call that ran from start to return with nothing in between leaves
\* what engineAnalyze computes
StepsAgree ==
  last.op = "engineAnalyze" =>
    \E debug \in BOOLEAN, write \in WriteOutcomes :
    LET r == engineAnalyze([graph       |-> last.before.graph,
                            cacheEngine |-> last.before.cacheEngine,
                            analyzers   |-> analyzers],
                           last.fs, last.before.disk,
                           last.enableCache, debug, write)
    IN  /\ graph = r.graph
        /\ cacheEngine = r.cacheEngine
        /\ disk = r.disk
        /\ last.outcome = r.outcome
        /\ last.changed = r.changed
        /\ last.analysed = r.analysed
        /\ last.caught = r.caught
        /\ last.saved = r.saved
        /\ last.stats = r.stats

\* an engine in a project without files whose cache file is missing or
\* holds a document without a files member
OverlapInit ==
  /\ graph = EmptyGraph
  /\ last = [op |-> "newEngine"]
  /\ addCount = 0
  /\ files = << >>
  /\ disk \in { NoCacheFile, CacheFile(JSONstringify(JsonEmptyObject)) }
  /\ cacheEngine = NoCacheEngine
  /\ analyzers = registerAnalyzers
  /\ pool = NoPool
  /\ calls = NoCalls
  /\ stats = NoStats

OverlapNext ==
  \/ \E p \in Paths : \E src \in EngineSources[p] :
       Len(calls) < MaxCalls /\ WriteFile(p, src)
  \/ \E p \in Paths : Len(calls) < MaxCalls /\ DeleteFile(p)
  \/ Pending # {} /\ AddAnalyzer(ErrorAnalyzer({"a.ts", "b.ts"}))
  \/ Pending # {} /\ RemoveAnalyzer("ErrorAnalyzer")
  \/ \E enableCache \in BOOLEAN, debug \in BOOLEAN :
       Len(calls) < MaxCalls /\ StartAnalyze(enableCache, debug)
  \/ \E i \in 1..MaxCalls, write \in WriteOutcomes : ResumeWalk(i, write)
  \/ \E i \in 1..MaxCalls : ResumeAnalyzer(i)
  \/ \E i \in 1..MaxCalls, write \in WriteOutcomes : ResumeFile(i, write)

\* analyze() calls started by events (a document save starts one) on one
\* engine, none awaited before the next event: their continuations, file
\* changes before the last start and analyzer changes during the calls
\* come in any order
OverlapSpec == OverlapInit /\ [][OverlapNext]_vars

(* ----------------------------- worker pool ---------------------------- *)

\* number of tasks handed to processAll
MaxTasks == 3

\* setInterval period and setTimeout delay of processTask, in milliseconds
IntervalMs == 100

TimeoutMs == 30000

\* the concurrency settings the callers construct pools with
Concurrencies == {0, 1, 2}

\* task ids; two tasks of one call may carry the same id
TaskIds == {"t1", "t2"}

\* the task lists of processAll: up to MaxTasks tasks
TaskLists ==
  UNION { [ 1..n -> { [id |-> t] : t \in TaskIds } ] : n \in 0..MaxTasks }

\* new WorkerPool(concurrency) on which processAll(tasks) has been called:
\* empty queue, no active worker, no result, the loop before its first task
NewPool(concurrency, tasks) ==
  [ concurrency |-> concurrency, tasks |-> tasks, taskQueue |-> << >>,
    activeWorkers |-> {}, results |-> << >>, deferred |-> 0,
    tasksCompleted |-> 0, tasksFailed |-> 0,
    phase |-> "loop", idx |-> 1, elapsed |-> 0, intervals |-> {},
    out |-> << >> ]

\* WorkerPool.processTaskSync: the placeholder result is stored at once and
\* a processNextTask is deferred with setTimeout(..., 0); the try block
\* cannot throw, so the catch branch is never taken
processTaskSync(p, task) ==
  [p EXCEPT !.results = MapSet(@, task.id,
                               [taskId |-> task.id, success |-> TRUE,
                                nodes |-> << >>, edges |-> << >>,
                                error |-> ""]),
            !.tasksCompleted = @ + 1,
            !.deferred = @ + 1]

\* WorkerPool.processNextTask
processNextTask(p) ==
  IF Len(p.taskQueue) = 0 \/ Cardinality(p.activeWorkers) >= p.concurrency
  THEN p
  ELSE processTaskSync([p EXCEPT !.taskQueue = Tail(@)], Head(p.taskQueue))

\* the result processAll pushes when processTask rejects
TimedOut(task) ==
  [taskId |-> task.id, success |-> FALSE, nodes |-> << >>, edges |-> << >>,
   error |-> "timed out"]

\* the loop of processAll calls processTask for its next task: the promise
\* executor queues the task, runs processNextTask and arms the timeout and
\* the polling interval; processAll then waits for the promise
ProcessTask ==
  /\ pool.phase = "loop"
  /\ pool.idx <= Len(pool.tasks)
  /\ pool' = [processNextTask([pool EXCEPT !.taskQueue =
                                 Append(@, pool.tasks[pool.idx])])
                EXCEPT !.phase = "await",
                       !.elapsed = 0,
                       !.intervals = @ \cup {pool.idx}]
  /\ UNCHANGED <<graph, last, addCount, files, disk, cacheEngine, analyzers, calls, stats>>

\* the callback of setTimeout(() => this.processNextTask(), 0)
DeferredProcessNextTask ==
  /\ pool.deferred > 0
  /\ pool' = processNextTask([pool EXCEPT !.deferred = @ - 1])
  /\ UNCHANGED <<graph, last, addCount, files, disk, cacheEngine, analyzers, calls, stats>>

\* a tick of the polling interval of task j (the interval of a task that
\* timed out is never cleared and keeps ticking).  With a result for the
\* task's id: the interval is cleared, the result leaves the map and the
\* promise resolves, which makes the waiting processAll push the result.
\* Without one the tick of the awaited task only lets time pass.
IntervalTick(j) ==
  /\ j \in pool.intervals
  /\ LET id == pool.tasks[j].id
     IN  IF id \in DOMAIN pool.results
         THEN pool' =
                [pool EXCEPT
                   !.intervals = @ \ {j},
                   !.results = [k \in (DOMAIN @) \ {id} |-> @[k]],
                   !.out = IF pool.phase = "await" /\ j = pool.idx
                           THEN Append(@, pool.results[id]) ELSE @,
                   !.idx = IF pool.phase = "await" /\ j = pool.idx
                           THEN @ + 1 ELSE @,
                   !.phase = IF pool.phase = "await" /\ j = pool.idx
                             THEN "loop" ELSE @]
         ELSE /\ pool.phase = "await"
              /\ j = pool.idx
              /\ pool.elapsed + IntervalMs <= TimeoutMs
              /\ pool' = [pool EXCEPT !.elapsed = @ + IntervalMs]
  /\ UNCHANGED <<graph, last, addCount, files, disk, cacheEngine, analyzers, calls, stats>>

\* a processAll without the catch that pushes a failure for the task
TimeoutDropsTask ==
  /\ pool.phase = "await"
  /\ pool.elapsed >= TimeoutMs
  /\ pool' = [pool EXCEPT !.idx = @ + 1, !.phase = "loop"]
  /\ UNCHANGED <<graph, last, addCount, files, disk, cacheEngine, analyzers, calls, stats>>

\* the timeout of the awaited task fires: the promise rejects and processAll
\* pushes a failure for the task; the task's interval is left running
Timeout ==
  /\ pool.phase = "await"
  /\ pool.elapsed >= TimeoutMs
  /\ pool' = [pool EXCEPT !.out = Append(@, TimedOut(pool.tasks[pool.idx])),
                          !.idx = @ + 1,
                          !.phase = "loop"]
  /\ UNCHANGED <<graph, last, addCount, files, disk, cacheEngine, analyzers, calls, stats>>

\* processAll returns its results
Return ==
  /\ pool.phase = "loop"
  /\ pool.idx > Len(pool.tasks)
  /\ pool' = [pool EXCEPT !.phase = "returned"]
  /\ UNCHANGED <<graph, last, addCount, files, disk, cacheEngine, analyzers, calls, stats>>

WorkerInit ==
  /\ graph = EmptyGraph
  /\ last = [op |-> "new"]
  /\ addCount = 0
  /\ files = << >>
  /\ disk = NoCacheFile
  /\ cacheEngine = NoCacheEngine
  /\ analyzers = << >>
  /\ \E c \in Concurrencies, ts \in TaskLists : pool = NewPool(c, ts)
  /\ calls = NoCalls
  /\ stats = NoStats

WorkerNext ==
  \/ ProcessTask
  \/ DeferredProcessNextTask
  \/ \E j \in 1..MaxTasks : IntervalTick(j)
  \/ Timeout
  \/ Return

\* one processAll call on a new pool
WorkerSpec == WorkerInit /\ [][WorkerNext]_vars

\* the event loop runs every due timer callback and every continuation
WorkerFairSpec == WorkerSpec /\ WF_vars(WorkerNext)

(* ------------------------ merge of worker results --------------------- *)

\* number of workers whose results the driver merges
MaxWorkers == 3

\* number of files in the array the driver hands to one worker
MaxWorkerFiles == 2

\* the files the driver hands to the workers, paths relative to the
\* project root.  A JavaScript source is given as far as the regular
\* expressions of the endpoint analyzer read it: per line the call it
\* holds, app.METHOD('path', h) or fetch('path'); a TypeScript source as in
\* Sources.  The second path is the file a.js of the directory
\* "x.js:endpoint:express:get:"
WorkerSources ==
  [ f \in {"x.js", "x.js:endpoint:express:get:/a.js", "y.js", "a.ts"} |->
      CASE f = "x.js" ->
             << [call |-> "express", method |-> "get",
                 path |-> "/a.js:endpoint:express:get:/u"] >>
        [] f = "x.js:endpoint:express:get:/a.js" ->
             << [call |-> "express", method |-> "get", path |-> "/u"] >>
        [] f = "y.js" ->
             << [call |-> "fetch", method |-> "", path |-> "/u"],
                [call |-> "express", method |-> "post", path |-> "/u"] >>
        [] f = "a.ts" ->
             [lines |-> 3, imports |-> << >>,
              decls |-> << [name |-> "f", loc |-> 20] >>] ]

\* String.prototype.endsWith
endsWith(s, ext) ==
  Len(s) >= Len(ext) /\ SubSeq(s, Len(s) - Len(ext) + 1, Len(s)) = ext

RECURSIVE toUpperCase(_)
\* String.prototype.toUpperCase on ASCII text
toUpperCase(s) ==
  IF Len(s) = 0 THEN s
  ELSE LET c     == SubSeq(s, 1, 1)
           lower == "abcdefghijklmnopqrstuvwxyz"
           upper == "ABCDEFGHIJKLMNOPQRSTUVWXYZ"
           at    == { i \in 1..Len(lower) : SubSeq(lower, i, i) = c }
       IN  (IF at = {} THEN c
            ELSE LET i == CHOOSE j \in at : TRUE IN SubSeq(upper, i, i))
             \o toUpperCase(SubSeq(s, 2, Len(s)))

RECURSIVE processEndpoints(_, _, _, _, _)
\* EndpointAnalyzer.processEndpoints from line lineNumber on: an endpoint
\* node for each match of the expression of `type`, its id built from the
\* file path, the method and the path as they stand in the source
processEndpoints(g, filePath, content, type, lineNumber) ==
  IF lineNumber > Len(content) THEN g
  ELSE IF content[lineNumber].call # type
       THEN processEndpoints(g, filePath, content, type, lineNumber + 1)
       ELSE LET method == content[lineNumber].method
                path   == content[lineNumber].path
                nodeId == filePath \o ":endpoint:" \o type \o ":" \o method
                            \o ":" \o path \o ":" \o ToString(lineNumber)
            IN  processEndpoints(
                  addNode(g, MakeNode(nodeId,
                                      [type |-> "endpoint",
                                       name |-> toUpperCase(method) \o " " \o path,
                                       loc  |-> 1])),
                  filePath, content, type, lineNumber + 1)

RECURSIVE processClientCalls(_, _, _, _, _)
\* EndpointAnalyzer.processClientCalls from line lineNumber on: a
\* client_call node for each match; for fetch the first group of the match
\* is the url, which is taken as the url and as the method
processClientCalls(g, filePath, content, type, lineNumber) ==
  IF lineNumber > Len(content) THEN g
  ELSE IF content[lineNumber].call # type
       THEN processClientCalls(g, filePath, content, type, lineNumber + 1)
       ELSE LET url    == content[lineNumber].path
                method == url
                nodeId == filePath \o ":client_call:" \o type \o ":" \o method
                            \o ":" \o url \o ":" \o ToString(lineNumber)
            IN  processClientCalls(
                  addNode(g, MakeNode(nodeId,
                                      [type |-> "client_call",
                                       name |-> toUpperCase(method) \o " " \o url,
                                       loc  |-> 1])),
                  filePath, content, type, lineNumber + 1)

\* EndpointAnalyzer.analyzeJavaScriptEndpoints: the express endpoints, then
\* the fetch calls (the modelled sources hold no Next.js route and no
\* axios call)
analyzeJavaScriptEndpoints(g, filePath, content) ==
  processClientCalls(processEndpoints(g, filePath, content, "express", 1),
                     filePath, content, "fetch", 1)

\* processFiles of the worker script: a Graph of its own; for each file of
\* the array `files`, in the order of the array, the first analyzer of the list
\* with an extension the path ends with analyses the file (the modelled
\* paths select the TypeScript analyzer or the endpoint analyzer); the
\* worker runs no edge detector.  The result is the lists of getAllNodes
\* and getAllEdges
processFiles(filePaths) ==
  LET found(filePath) ==
        LET ans == registerAnalyzers
            ok  == { k \in 1..Len(ans) :
                       \E ext \in ans[k].supportedExtensions :
                         endsWith(filePath, ext) }
        IN  ans[CHOOSE k \in ok : \A j \in ok : k <= j].name
      analysed(g, filePath) ==
        CASE found(filePath) = "TypeScriptAnalyzer" ->
               TypeScriptAnalyze(g, filePath, WorkerSources[filePath])
          [] found(filePath) = "EndpointAnalyzer" ->
               analyzeJavaScriptEndpoints(g, filePath, WorkerSources[filePath])
      RECURSIVE loop(_, _)
      loop(g, rest) ==
        IF rest = << >> THEN g
        ELSE loop(analysed(g, Head(rest)), Tail(rest))
      graphOfWorker == loop(EmptyGraph, filePaths)
  IN  [nodes |-> getAllNodes(graphOfWorker), edges |-> getAllEdges(graphOfWorker)]

\* the file arrays of the workers of one run: each worker an array of
\* distinct files, no file in two arrays
WorkerTasks ==
  LET arrays == { fa \in UNION { [1..k -> DOMAIN WorkerSources] :
                                   k \in 1..MaxWorkerFiles } :
                    \A i, j \in DOMAIN fa : fa[i] = fa[j] => i = j }
  IN  { t \in UNION { [1..n -> arrays] : n \in 2..MaxWorkers } :
          \A i, j \in DOMAIN t :
            i # j => Range(t[i]) \cap Range(t[j]) = {} }

\* what the workers of one run post back: one result per worker
WorkerResults ==
  { [ w \in DOMAIN t |-> processFiles(t[w]) ] : t \in WorkerTasks }

RECURSIVE replayNodes(_, _)
\* the driver replays addNode for the nodes of a worker result
replayNodes(g, nodes) ==
  IF nodes = << >> THEN g
  ELSE replayNodes(addNode(g, Head(nodes)), Tail(nodes))

RECURSIVE replayEdges(_, _)
\* then addEdge for its edges; an insertion addEdge refuses is recorded
replayEdges(st, es) ==
  IF es = << >> THEN st
  ELSE LET r == addEdge(st.graph, Head(es).from, Head(es).to, Head(es).type,
                        Head(es).metadata)
       IN  replayEdges([graph  |-> r.graph,
                        failed |-> IF r.ok THEN st.failed
                                           ELSE st.failed \cup {Head(es)}],
                       Tail(es))

\* one worker result merged into the shared graph
mergeResult(st, result) ==
  replayEdges([graph  |-> replayNodes(st.graph, result.nodes),
               failed |-> st.failed],
              result.edges)

RECURSIVE mergeAll(_, _, _)
\* the results merged one at a time in the given order
mergeAll(st, results, order) ==
  IF order = << >> THEN st
  ELSE mergeAll(mergeResult(st, results[Head(order)]), results, Tail(order))

\* the driver merges the result of worker w, which it has not merged yet
MergeResult(w) ==
  /\ last.op = "merge"
  /\ w \in (1..Len(last.results)) \ Range(last.merged)
  /\ LET st == mergeResult([graph |-> graph, failed |-> last.failed],
                           last.results[w])
     IN  /\ graph' = st.graph
         /\ last' = [last EXCEPT !.merged = Append(@, w), !.failed = st.failed]
  /\ UNCHANGED <<addCount, envvars>>

\* the workers have posted their results, nothing is merged yet
MergeInit ==
  /\ graph = EmptyGraph
  /\ \E rs \in WorkerResults :
       last = [op |-> "merge", results |-> rs, merged |-> << >>, failed |-> {}]
  /\ addCount = 0
  /\ NoEngine

MergeNext == \E w \in 1..MaxWorkers : MergeResult(w)

\* the driver merging the workers' results in the order they complete
MergeSpec == MergeInit /\ [][MergeNext]_vars

(* ------------------------- vocabulary of the claims ------------------- *)

AllEdges == Range(getAllEdges(graph))

NodeSet == DOMAIN graph.nodes

Deps(n) == Range(getDependencies(graph, n))

Dpts(n) == Range(getDependents(graph, n))

NoDup(s) == \A i, j \in 1..Len(s) : s[i] = s[j] => i = j

\* the last call was a removeNodeSimulation that returned a result; the
\* simulation leaves the graph alone, so `graph` is the graph it ran on
SimReturned == last.op = "removeNodeSimulation" /\ last.ok

\* some id has been passed to addNode more than once
IdReused == addCount > Len(graph.order)

(* ------------------------------ claims -------------------------------- *)

\* C1: for every edge (a,b,t) of getAllEdges(), b is in getDependencies(a)
\* and a is in getDependents(b), also after addNode calls that re-use an id.
C1_EdgesMirrored ==
  \A e \in AllEdges : e.to \in Deps(e.from) /\ e.from \in Dpts(e.to)

\* C2: addEdge with a missing endpoint fails with 'Node not found' and
\* leaves the whole graph (edge lists, every node's adjacency) as it was.
C2_FailedAddEdgeChangesNothing ==
  [][ (last'.op = "addEdge"
       /\ (last'.from \notin NodeSet \/ last'.to \notin NodeSet))
      => /\ ~last'.ok
         /\ last'.error =
              <<"Node not found",
                IF last'.from \notin NodeSet THEN last'.from ELSE last'.to>>
         /\ graph' = graph ]_vars

\* C2 witness: a failed addEdge on a graph that has nodes and an edge
C2_Witness ==
  /\ last.op = "addEdge" /\ ~last.ok
  /\ last.from \in NodeSet /\ last.to \notin NodeSet
  /\ AllEdges # {}

\* C3: (nodes being supplied with empty sets, as MakeNode does) every id
\* in getDependencies(a) is a node and the `to` of an edge from a, and every
\* id in getDependents(b) is a node and the `from` of an edge to b.
C3_AdjacencyBackedByEdges ==
  \A n \in NodeSet :
    /\ \A x \in Deps(n) :
         x \in NodeSet /\ \E e \in AllEdges : e.from = n /\ e.to = x
    /\ \A x \in Dpts(n) :
         x \in NodeSet /\ \E e \in AllEdges : e.from = x /\ e.to = n

\* C3 witness: adjacency sets are populated and an id was re-used after that
C3_Witness ==
  /\ IdReused
  /\ \E n \in NodeSet : Dpts(n) # {}
  /\ \E e \in AllEdges : e.to \notin Deps(e.from)

\* C4: addNode with an id already in the graph replaces the stored
\* attributes by the new node's and keeps every recorded edge that has the
\* id as from or to (as often as it was recorded).
C4_ReAddReplacesAttrsKeepsEdges ==
  [][ (last'.op = "addNode" /\ last'.node.id \in NodeSet)
      => LET id   == last'.node.id
             new  == graph'.nodes[id]
             Occ(es, e) == Cardinality({ i \in 1..Len(es) : es[i] = e })
         IN  /\ new.type = last'.node.type
             /\ new.name = last'.node.name
             /\ new.loc = last'.node.loc
             /\ new.metadata = last'.node.metadata
             /\ \A e \in AllEdges :
                  (e.from = id \/ e.to = id)
                  => Occ(getAllEdges(graph'), e) = Occ(getAllEdges(graph), e) ]_vars

\* C4 witness: A, first added as an endpoint, was re-added as a provider
\* while edges from and to it were recorded
C4_Witness ==
  /\ last.op = "addNode" /\ last.node.id = "A" /\ last.node.type = "provider"
  /\ "endpoint" \in DOMAIN graph.nodeTypes
  /\ "A" \in Range(graph.nodeTypes["endpoint"])
  /\ graph.nodes["A"].type = "provider"
  /\ \E e \in AllEdges : e.from = "A"
  /\ \E e \in AllEdges : e.to = "A"

\* C5: removeNodeSimulation(id), returning or failing, leaves the node
\* set, every node's attributes and adjacency sets, and the edge lists as
\* they were.
C5_SimulationReadOnly ==
  [][ last'.op = "removeNodeSimulation" => graph' = graph ]_vars

\* C5 witness: a simulation returned non-empty affected and orphaned lists
C5_Witness ==
  /\ SimReturned
  /\ last.result.affectedNodes # << >>
  /\ last.result.orphanedNodes # << >>

\* C6: orphanedNodes is exactly the set of dependencies u of n with
\* dependents(u) = {n}; in particular, when the graph has the edge n -> u
\* and every edge into u is from n, orphanedNodes contains u.
C6_OrphanedExact ==
  SimReturned =>
    LET n == last.nodeId
        orphaned == Range(last.result.orphanedNodes)
    IN  /\ orphaned = { u \in Deps(n) : Dpts(u) = {n} }
        /\ \A u \in NodeSet :
             ( /\ \E e \in AllEdges : e.from = n /\ e.to = u
               /\ \A e \in AllEdges : e.to = u => e.from = n )
             => u \in orphaned

\* C7: brokenEndpoints is exactly the dependents of n of type "endpoint",
\* plus n itself when n is an endpoint, each id once.
C7_BrokenEndpointsExact ==
  SimReturned =>
    LET n == last.nodeId
    IN  /\ Range(last.result.brokenEndpoints) =
             { d \in Dpts(n) : d \in NodeSet /\ graph.nodes[d].type = "endpoint" }
             \cup (IF graph.nodes[n].type = "endpoint" THEN {n} ELSE {})
        /\ NoDup(last.result.brokenEndpoints)

\* C7 witness: the simulated node is an endpoint and its dependents are
\* not endpoints
C7_Witness ==
  /\ SimReturned
  /\ graph.nodes[last.nodeId].type = "endpoint"
  /\ Dpts(last.nodeId) # {}
  /\ last.nodeId \notin Dpts(last.nodeId)
  /\ last.result.brokenEndpoints = <<last.nodeId>>

\* C8: servicesWithoutProvider is the dependents of n of type "service"
\* when n is a provider and empty otherwise; with A a provider, B a service
\* and an edge B -> A, it is exactly [B].
C8_ServicesWithoutProviderExact ==
  SimReturned =>
    LET n == last.nodeId
        swp == last.result.servicesWithoutProvider
    IN  /\ Range(swp) =
             IF graph.nodes[n].type = "provider"
             THEN { d \in Dpts(n) : d \in NodeSet /\ graph.nodes[d].type = "service" }
             ELSE {}
        /\ NoDup(swp)
        /\ ( /\ n = "A" /\ graph.nodes["A"].type = "provider"
             /\ "B" \in NodeSet /\ graph.nodes["B"].type = "service"
             /\ \E e \in AllEdges : e.from = "B" /\ e.to = "A" )
           => swp = <<"B">>

\* C9: affectedNodes is exactly the direct dependents of n, each once; for
\* an id that is not in the graph the call fails with 'Node not found'.
C9_AffectedAreDirectDependents ==
  last.op = "removeNodeSimulation" =>
    IF last.nodeId \in NodeSet
    THEN /\ last.ok
         /\ Range(last.result.affectedNodes) = Dpts(last.nodeId)
         /\ NoDup(last.result.affectedNodes)
    ELSE /\ ~last.ok
         /\ last.error = <<"Node not found", last.nodeId>>

\* C9 witness: the simulated node has a dependent that itself has a
\* dependent which is not reported
C9_Witness ==
  /\ SimReturned
  /\ \E d \in Dpts(last.nodeId) :
       \E t \in Dpts(d) : t \notin Range(last.result.affectedNodes)

\* C10: the impact score is loc*0.4 + fanOut*3 + fanIn*2 + depth*2 (here in
\* tenths) with fanOut = |getDependencies(n)|, fanIn = |getDependents(n)|,
\* and the returned factors are those values; loc 10, fanOut 2, fanIn 3,
\* depth 1 gives 18.
C10_ScoreFormula ==
  SimReturned =>
    LET n == last.nodeId
        s == last.result.impactScore
        f == s.factors
    IN  /\ f.loc = graph.nodes[n].loc
        /\ f.fanOut = Cardinality(Deps(n))
        /\ f.fanIn = Cardinality(Dpts(n))
        /\ f.dependencyDepth = calculateDependencyDepth(graph, n)
        /\ s.score10 = 4 * f.loc + 30 * f.fanOut + 20 * f.fanIn
                       + 20 * f.dependencyDepth
        /\ (f.loc = 10 /\ f.fanOut = 2 /\ f.fanIn = 3 /\ f.dependencyDepth = 1)
           => s.score10 = 180

\* C10 witness: the example of the claim, loc 10, fanOut 2, fanIn 3,
\* depth 1, with score 18.0
C10_Witness ==
  /\ SimReturned
  /\ last.result.impactScore.factors =
       [loc |-> 10, fanOut |-> 2, fanIn |-> 3, dependencyDepth |-> 1]
  /\ last.result.impactScore.score10 = 180

\* C11: the level is Low below 10, Medium on [10,50), High on [50,100) and
\* Critical from 100 on, so 10, 50 and 100 themselves are Medium, High and
\* Critical; a node with loc 10 and no edges is Low.
C11_LevelBands ==
  SimReturned =>
    LET s == last.result.impactScore
        f == s.factors
    IN  /\ s.level \in {"Low", "Medium", "High", "Critical"}
        /\ s.level = "Low" <=> s.score10 < 100
        /\ s.level = "Medium" <=> (100 <= s.score10 /\ s.score10 < 500)
        /\ s.level = "High" <=> (500 <= s.score10 /\ s.score10 < 1000)
        /\ s.level = "Critical" <=> 1000 <= s.score10
        /\ (f.loc = 10 /\ f.fanOut = 0 /\ f.fanIn = 0) => s.level = "Low"

\* C11 witness: a score of exactly 50.0, reported as High
C11_Witness ==
  /\ SimReturned
  /\ last.result.impactScore.score10 = 500
  /\ last.result.impactScore.level = "High"

\* the ids that analyze() reported in unusedNodes
ReportedUnused == { last.result.unusedNodes[i].id :
                      i \in 1..Len(last.result.unusedNodes) }

HasIncoming(n) == \E e \in AllEdges : e.to = n

\* C12: a node of type "endpoint" that is the target of no edge is not in
\* the unusedNodes of analyze().
C12_EndpointNeverUnused ==
  last.op = "analyze" =>
    \A n \in NodeSet :
      (graph.nodes[n].type = "endpoint" /\ ~HasIncoming(n))
      => n \notin ReportedUnused

\* the entry-point allow-list as the specification gives it: route and
\* endpoint nodes, external client calls and API endpoints
AllowListedTypes == {"symfony_route", "endpoint", "client_call", "api_endpoint"}

\* C13: unusedNodes is exactly the nodes that are the `to` of no edge and
\* whose type is not in the entry-point allow-list (route/endpoint,
\* external client call, API endpoint); a node with an incoming edge, or
\* of an allow-listed type, is never included.
C13_UnusedExact ==
  last.op = "analyze" =>
    /\ ReportedUnused =
         { n \in NodeSet :
             /\ ~HasIncoming(n)
             /\ graph.nodes[n].type \notin AllowListedTypes }
    /\ \A i \in 1..Len(last.result.unusedNodes) :
         last.result.unusedNodes[i] = graph.nodes[last.result.unusedNodes[i].id]

\* on a graph without a node of type "endpoint" the reported nodes are
\* exactly those the allow-list rule gives
UnusedExactWithoutEndpoints ==
  (last.op = "analyze" /\ \A n \in NodeSet : graph.nodes[n].type # "endpoint")
  => ReportedUnused =
       { n \in NodeSet :
           ~HasIncoming(n) /\ graph.nodes[n].type \notin AllowListedTypes }

\* C14: a markUnusedMetadata call that directly follows another one
\* changes nothing, and any markUnusedMetadata call changes nothing but the
\* unused marker of nodes.
C14_MarkIdempotent ==
  [][ last'.op = "markUnusedMetadata"
      => /\ last'.repeat => graph' = graph
         /\ graph'.order = graph.order
         /\ graph'.edges = graph.edges
         /\ graph'.nodeTypes = graph.nodeTypes
         /\ DOMAIN graph'.nodes = DOMAIN graph.nodes
         /\ \A n \in DOMAIN graph.nodes :
              /\ [graph'.nodes[n] EXCEPT !.metadata = {}]
                   = [graph.nodes[n] EXCEPT !.metadata = {}]
              /\ graph'.nodes[n].metadata \in
                   { graph.nodes[n].metadata,
                     graph.nodes[n].metadata \cup {"unused"} } ]_vars

\* C14 witness: a second markUnusedMetadata in a row, on a graph with a
\* marked and an unmarked node
C14_Witness ==
  /\ last.op = "markUnusedMetadata" /\ last.repeat
  /\ \E n \in NodeSet : "unused" \in graph.nodes[n].metadata
  /\ \E n \in NodeSet : "unused" \notin graph.nodes[n].metadata

\* C15: getChangedFiles returns exactly the current files that have no
\* stored entry or a stored hash other than the hash of their content,
\* together with the stored paths that are not current files, each once; a
\* current file whose stored hash is the hash of its content is not
\* returned; the call leaves the cache and the cache file as they were.
C15_ChangedFilesExact ==
  [][ last'.op = "getChangedFiles"
      => LET stored == cacheEngine.cache.files
             fresh  == { p \in DOMAIN files :
                           \/ p \notin Range(stored.keys)
                           \/ stored.entries[p].hash # calculateHash(files[p]) }
             gone   == { p \in Range(stored.keys) : p \notin DOMAIN files }
         IN  /\ last'.ok
             /\ Range(last'.value) = fresh \cup gone
             /\ NoDup(last'.value)
             /\ \A p \in DOMAIN files :
                  ( /\ p \in Range(stored.keys)
                    /\ stored.entries[p].hash = calculateHash(files[p]) )
                  => p \notin Range(last'.value)
             /\ cacheEngine' = cacheEngine
             /\ disk' = disk ]_vars

\* a call that met all three cases: a.ts stored with the hash of its
\* content, b.ts stored but deleted from the project
C15_Witness ==
  /\ last.op = "getChangedFiles"
  /\ last.ok
  /\ last.currentFiles.keys = << "a.ts" >>
  /\ last.value = << "b.ts" >>

\* a cache file the engine can read as a cache document
WellFormedCacheFile(d) ==
  /\ d.exists
  /\ d.readable
  /\ d.text.syntax = "json"
  /\ d.text.value.type = "object"
  /\ d.text.value.hasFiles

\* C17: whatever the cache file holds that is not a well-formed cache
\* document, the calls on a CacheEngine constructed over it complete
\* without an error and report every current file as changed.
C17_AnyCacheFileDegrades ==
  ~WellFormedCacheFile(disk) =>
    /\ last.op = "newCacheEngine" => last.ok
    /\ last.op = "hasChanged" => (last.ok /\ last.value)
    /\ last.op = "getChangedFiles" =>
         ( /\ last.ok
           /\ Range(last.currentFiles.keys) \subseteq Range(last.value) )

\* C16: a run with caching enabled that saved the cache, followed by a
\* second run with caching enabled over the same files with the same
\* contents: getChangedFiles of the second run returns nothing, whatever
\* the cache held before the first run.
C16_SecondRunFindsNothingChanged ==
  (last.op = "engineAnalyze" /\ last.enableCache /\ last.afterSaved)
  => last.changed = << >>

\* C18: a 'Node not found' error of addEdge during analyze() reaches the
\* caller: the promise of a run in which addEdge raised it rejects.
C18_NodeNotFoundPropagates ==
  (last.op = "engineAnalyze" /\ "Node not found" \in last.caught)
  => last.outcome = "rejected"

\* C19: analyze() resolves with a graph and stats although an analyzer
\* rejects on some or on all of the files (and however the write of the
\* cache file ends): every file that was due for analysis has the file
\* node and the function nodes of the TypeScript analyzer, built from its
\* current content, whenever that analyzer is registered, wherever the
\* rejecting analyzer stands in the list and whichever files it rejects.
C19_AnalyzerFailureIsLocal ==
  last.op = "engineAnalyze"
  => /\ last.outcome = "resolved"
     /\ last.stats.nodesCreated = Cardinality(DOMAIN graph.nodes)
     /\ last.analysed =
          SelectSeq(Walk(last.fs),
                    LAMBDA p : \/ /\ ~last.enableCache
                                  /\ ~last.before.cacheEngine.constructed
                               \/ p \in Range(last.changed))
     /\ (\E i \in 1..Len(analyzers) : analyzers[i].name = "TypeScriptAnalyzer")
        => \A p \in Range(last.analysed) :
             /\ p \in DOMAIN graph.nodes
             /\ graph.nodes[p].type = "file"
             /\ graph.nodes[p].loc = last.fs[p].lines
             /\ \A k \in 1..Len(last.fs[p].decls) :
                  LET id == p \o "#" \o last.fs[p].decls[k].name
                  IN  /\ id \in DOMAIN graph.nodes
                      /\ graph.nodes[id].type = "function"

\* a run in which an analyzer standing before the TypeScript analyzer
\* rejected b.ts and not a.ts, both files have their nodes, and the write
\* of the cache file failed and left the file empty
C19_Witness ==
  /\ last.op = "engineAnalyze"
  /\ last.outcome = "resolved"
  /\ "Analyzer error" \in last.caught
  /\ last.analysed = << "a.ts", "b.ts" >>
  /\ analyzers = << ReactAnalyzer, SymfonyAnalyzer, EndpointAnalyzer,
                    ErrorAnalyzer({"b.ts"}), TypeScriptAnalyzer >>
  /\ {"a.ts", "a.ts#f", "b.ts", "b.ts#g"} \subseteq DOMAIN graph.nodes
  /\ last.enableCache
  /\ ~last.saved
  /\ disk = CacheFile(EmptyText)

\* the project is as a run that saved the cache left it: the cache file
\* stores exactly the current files, each with the hash of its content
CacheCurrent(d, fs) ==
  /\ WellFormedCacheFile(d)
  /\ fs # << >>
  /\ Range(d.text.value.files.keys) = DOMAIN fs
  /\ \A p \in DOMAIN fs :
       d.text.value.files.entries[p].hash = calculateHash(fs[p])

\* C20: when no file changed since a run that saved the cache, a run with
\* the cache enabled, on the same engine or on a new one, ends with the
\* graph (and nodesCreated) of a run of a new engine with the same
\* analyzers over the same files with the cache disabled.
C20_CachedRunEqualsUncachedRun ==
  ( /\ last.op = "engineAnalyze"
    /\ last.enableCache
    /\ CacheCurrent(last.before.disk, last.fs) )
  => LET full == engineAnalyze([graph       |-> EmptyGraph,
                                cacheEngine |-> NoCacheEngine,
                                analyzers   |-> analyzers],
                               last.fs, NoCacheFile, FALSE, FALSE, "refused")
     IN  /\ graph = full.graph
         /\ last.stats.nodesCreated = full.stats.nodesCreated

\* C21: every analyze() pass rebuilds the graph: the graph after the pass
\* is the graph the same pass leaves on an engine whose graph was empty
\* when the pass began, so no node or edge of an earlier pass is carried
\* over and no edge is there twice because of an earlier pass.
C21_PassRebuildsGraph ==
  last.op = "engineAnalyze"
  => \E debug \in BOOLEAN :
       graph = engineAnalyze([graph       |-> EmptyGraph,
                              cacheEngine |-> last.before.cacheEngine,
                              analyzers   |-> analyzers],
                             last.fs, last.before.disk,
                             last.enableCache, debug, "written").graph

\* the result list processAll returned: one result per task, in task
\* order, with the task's id
OnePerTask ==
  /\ Len(pool.out) = Len(pool.tasks)
  /\ \A i \in 1..Len(pool.tasks) : pool.out[i].taskId = pool.tasks[i].id

\* C22: processAll eventually returns, for every concurrency setting, and
\* what it returns is exactly one result per task, in task order, with the
\* task's id; a task whose result did not appear before the timeout is
\* reported as success = false with no nodes and no edges, its work is
\* never done later (never retried), and the tasks after it get their
\* results as well.
C22_ProcessAllReturnsOnePerTask ==
  /\ <>(pool.phase = "returned")
  /\ [](pool.phase = "returned" => OnePerTask)
  /\ [](\A i \in 1..Len(pool.out) :
          \/ pool.out[i].success /\ pool.out[i].error = ""
          \/ /\ ~pool.out[i].success
             /\ pool.out[i].nodes = << >>
             /\ pool.out[i].edges = << >>)
  /\ [](pool.phase = "returned"
        => pool.tasksCompleted + pool.tasksFailed
             = Cardinality({ k \in 1..Len(pool.out) : pool.out[k].success }))
  /\ [][ \A i \in 1..Len(pool.out) :
           /\ Len(pool'.out) >= Len(pool.out)
           /\ pool'.out[i] = pool.out[i] ]_vars

\* a returned call in which tasks timed out one after the other
C22_Witness ==
  /\ pool.phase = "returned"
  /\ Len(pool.tasks) >= 2
  /\ \A i \in 1..Len(pool.out) : ~pool.out[i].success
  /\ pool.tasksCompleted = 0

\* the content of a graph: the nodes with their attributes and their
\* dependencies and dependents as sets, and how often each edge is stored
Content(g) ==
  [ nodes |-> [ id \in DOMAIN g.nodes |->
                  [g.nodes[id] EXCEPT !.dependencies = Range(@),
                                      !.dependents = Range(@)] ],
    edges |-> [ e \in Range(getAllEdges(g)) |->
                  Cardinality({ i \in 1..Len(getAllEdges(g)) :
                                  getAllEdges(g)[i] = e }) ] ]

\* the orders in which n results can be merged
MergeOrders(n) ==
  { o \in [1..n -> 1..n] : \A i, j \in 1..n : o[i] = o[j] => i = j }

\* C23: when every worker result is merged, the graph has the content
\* (nodes with their attributes, edge multiset, every dependencies and
\* dependents set) and the failed insertions that merging the same
\* results in any other order gives.
C23_MergeOrderIrrelevant ==
  (last.op = "merge" /\ Len(last.merged) = Len(last.results)) =>
    \A o \in MergeOrders(Len(last.results)) :
      LET other == mergeAll([graph |-> EmptyGraph, failed |-> {}],
                            last.results, o)
      IN  /\ Content(other.graph) = Content(graph)
          /\ other.failed = last.failed

RECURSIVE SumLen(_, _)
\* the number of dependency entries of the nodes in ids
SumLen(g, ids) ==
  IF ids = {} THEN 0
  ELSE LET id == CHOOSE x \in ids : TRUE
       IN  Len(getDependencies(g, id)) + SumLen(g, ids \ {id})

\* the invocations of dfs a walk can need: one for the start node and one
\* for every dependency entry of a visited node
WalkBudget(g) == 1 + SumLen(g, DOMAIN g.nodes)

\* C24: on every graph, cycles and self-loops included, the depth walk from
\* any node ends within one invocation per dependency entry plus one, passes
\* the visited test at most once per node and only for nodes of the graph,
\* and returns the depth calculateDependencyDepth reports; so the impact
\* score of removeNodeSimulation(n) and the average of getStats() are those
\* of finished walks.
C24_DepthWalkTerminates ==
  /\ \A n \in NodeIds :
       LET w == depthWalk(graph, n, WalkBudget(graph))
       IN  /\ ~w.exhausted
           /\ w.calls <= WalkBudget(graph)
           /\ NoDup(w.order)
           /\ Range(w.order) \subseteq NodeSet \cup {n}
           /\ w.maxDepth = calculateDependencyDepth(graph, n)
           /\ w.maxDepth < Max(1, Len(w.order))
  /\ SimReturned =>
       last.result.impactScore.factors.dependencyDepth
         = depthWalk(graph, last.nodeId, WalkBudget(graph)).maxDepth
  /\ last.op = "getStats" =>
       /\ last.result.averageImpactScore.den = 10 * Max(1, Cardinality(NodeSet))
       /\ last.result.averageImpactScore.num
            = SumScore10(graph, getAllNodes(graph), 1)

\* a simulation returned for A on a graph where A depends on itself and
\* lies on the cycle A -> B -> C -> A
C24_Witness ==
  /\ SimReturned
  /\ last.nodeId = "A"
  /\ "A" \in Deps("A")
  /\ "B" \in Deps("A")
  /\ "C" \in Deps("B")
  /\ "A" \in Deps("C")

\* the simple dependency paths that start at n: sequences of distinct nodes,
\* each a dependency of the one before it
SimplePaths(n) ==
  { p \in UNION { [1..k -> NodeSet] : k \in 1..Cardinality(NodeSet) } :
      /\ p[1] = n
      /\ NoDup(p)
      /\ \A i \in 1..(Len(p) - 1) : p[i + 1] \in Deps(p[i]) }

\* the number of edges of the longest of them
LongestSimplePath(n) ==
  CHOOSE k \in 0..Cardinality(NodeSet) :
    /\ \E p \in SimplePaths(n) : Len(p) = k + 1
    /\ \A p \in SimplePaths(n) : Len(p) <= k + 1

\* every node reachable from n is the end of exactly one simple path from n
UniquePaths(n) ==
  \A p, q \in SimplePaths(n) : p[Len(p)] = q[Len(q)] => p = q

\* C25: the dependency depth of a node never exceeds the length of the
\* longest simple dependency path that starts at it, equals that length when
\* every reachable node is reached by exactly one path, and is 0 exactly
\* when the node has no dependency other than itself; the depth a
\* simulation reports is that depth.
C25_DepthLowerBound ==
  /\ \A n \in NodeSet :
       LET d == calculateDependencyDepth(graph, n)
       IN  /\ d <= LongestSimplePath(n)
           /\ UniquePaths(n) => d = LongestSimplePath(n)
           /\ d = 0 <=> Deps(n) \subseteq {n}
  /\ SimReturned =>
       last.result.impactScore.factors.dependencyDepth
         = calculateDependencyDepth(graph, last.nodeId)

\* a simulation reported depth 1 for A on the diamond A -> C, A -> B,
\* B -> C, whose longest path A -> B -> C has length 2
C25_Witness ==
  /\ SimReturned
  /\ last.nodeId = "A"
  /\ getDependencies(graph, "A") = << "C", "B" >>
  /\ getDependencies(graph, "B") = << "C" >>
  /\ last.result.impactScore.factors.dependencyDepth = 1
  /\ LongestSimplePath("A") = 2

\* the graph the same addNode calls and the stored edges give when the
\* addEdge calls are made in the order o
BuiltInOrder(o) ==
  LET es == getAllEdges(graph)
  IN  AddEdges(AddNodes(EmptyGraph,
                        [ i \in 1..Len(graph.order) |->
                            << graph.order[i],
                               [ type |-> graph.nodes[graph.order[i]].type,
                                 name |-> graph.nodes[graph.order[i]].name,
                                 loc  |-> graph.nodes[graph.order[i]].loc ] >> ]),
               [ i \in 1..Len(es) |-> << es[o[i]].from, es[o[i]].to >> ])

\* C26: the impact score removeNodeSimulation(n) reports (score, level and
\* factors, dependencyDepth among them) is the one it reports for n on the
\* graph built from the same nodes and edges with the addEdge calls made in
\* any other order.
C26_ScoreOrderIndependent ==
  SimReturned =>
    \A o \in MergeOrders(Len(getAllEdges(graph))) :
      removeNodeSimulation(BuiltInOrder(o), last.nodeId).result.impactScore
        = last.result.impactScore

RECURSIVE SequentialCalls(_, _, _, _)
\* the engine fields and the cache file after the calls numbered by o are
\* awaited one after the other, starting from st, the write of the cache
\* file of the k-th of them ending as ws[k] tells
SequentialCalls(st, o, ws, k) ==
  IF k > Len(o) THEN st
  ELSE LET r == engineAnalyze([graph |-> st.graph, cacheEngine |-> st.cacheEngine,
                               analyzers |-> st.analyzers],
                              calls[o[k]].fs, st.disk,
                              calls[o[k]].enableCache, FALSE, ws[k])
       IN  SequentialCalls([graph |-> r.graph, cacheEngine |-> r.cacheEngine,
                            disk |-> r.disk, analyzers |-> st.analyzers],
                           o, ws, k + 1)

\* every analyze() call made has returned, and the analyzer list is the
\* one the first call began on and did not change during a call
AllCallsDone ==
  /\ Len(calls) = MaxCalls
  /\ \A i \in 1..Len(calls) :
       /\ calls[i].pc = "done"
       /\ calls[i].steady
       /\ calls[i].before.analyzers = calls[1].before.analyzers

\* a call began while an earlier one had not returned
Overlapped == \E i \in 1..Len(calls) : calls[i].pending > 0

\* the ways the writes of the cache file can end when the calls are awaited
\* in the order o: the write of a call that wrote ends as it ended
SameWrites(o) ==
  { ws \in [1..Len(calls) -> WriteOutcomes] :
      \A k \in 1..Len(calls) :
        calls[o[k]].result.write # "none" => ws[k] = calls[o[k]].result.write }

\* C27: when the analyze() calls made on one engine have all returned, the
\* graph (nodes, edge list, adjacency) and the cache file are those that
\* awaiting the same calls one after the other, in some order, leaves
\* (each write of the cache file ending as it ended).
C27_OverlapEqualsSequential ==
  (AllCallsDone /\ Overlapped) =>
    \E o \in MergeOrders(Len(calls)) : \E ws \in SameWrites(o) :
      LET seq == SequentialCalls(calls[1].before, o, ws, 1)
      IN  /\ graph = seq.graph
          /\ disk = seq.disk

\* calls that did not overlap leave what awaiting them in turn leaves
SequentialStepsAgree ==
  (AllCallsDone /\ ~Overlapped) =>
    \E ws \in SameWrites([i \in 1..Len(calls) |-> i]) :
    LET seq == SequentialCalls(calls[1].before, [i \in 1..Len(calls) |-> i],
                               ws, 1)
    IN  /\ graph = seq.graph
        /\ disk = seq.disk
        /\ cacheEngine = seq.cacheEngine

\* C28: right after a markUnusedMetadata call a node carries the unused
\* marker exactly when the detector classifies it as unused on the graph as
\* it is now.
C28_MarkerTracksGraph ==
  last.op = "markUnusedMetadata" =>
    \A id \in NodeSet :
      "unused" \in graph.nodes[id].metadata
        <=> id \in Range(Ids(findUnusedNodes(getAllNodes(graph),
                                              getAllEdges(graph))))

RECURSIVE SumCounts(_, _)
\* the sum of the counts of the types in ts
SumCounts(counts, ts) ==
  IF ts = {} THEN 0
  ELSE LET t == CHOOSE x \in ts : TRUE
       IN  counts[t] + SumCounts(counts, ts \ {t})

\* C29: the counts of getStats().nodeTypes sum to totalNodes, the count of
\* each type is the number of nodes that now have that type, and
\* getNodesByType(t) returns only nodes that now have type t.
C29_TypeIndexConsistent ==
  LET st == getStats(graph)
  IN  /\ SumCounts(st.nodeTypes, DOMAIN st.nodeTypes) = st.totalNodes
      /\ \A t \in DOMAIN st.nodeTypes :
           st.nodeTypes[t]
             = Cardinality({ id \in NodeSet : graph.nodes[id].type = t })
      /\ \A t \in DOMAIN graph.nodeTypes :
           \A n \in Range(getNodesByType(graph, t)) : n.type = t

\* how often the list es holds an edge from -> to of the type
EdgeCount(es, from, to, type) ==
  Cardinality({ i \in 1..Len(es) :
                  es[i].from = from /\ es[i].to = to /\ es[i].type = type })

\* how often the detector emits that edge for the files in filePaths
DetectedCount(filePaths, fs, from, to, type) ==
  Cardinality({ ik \in (1..Len(filePaths)) \X (1..(MaxEngineEdges + 2)) :
                  LET es == detect(filePaths[ik[1]], fs[filePaths[ik[1]]])
                  IN  /\ ik[2] <= Len(es)
                      /\ es[ik[2]].source = from
                      /\ es[ik[2]].target = to
                      /\ es[ik[2]].type = type })

\* C30: an analyze() pass adds each edge to the edge list at most as often
\* as the edge detector emits it for the files the pass analysed, however
\* many analyzers support their extension, and edgesCreated counts the
\* edge list.
C30_EdgeInsertedOncePerPass ==
  last.op = "engineAnalyze" =>
    /\ last.stats.edgesCreated = Len(getAllEdges(graph))
    /\ \A e \in Range(getAllEdges(graph)) :
         EdgeCount(getAllEdges(graph), e.from, e.to, e.type)
           - EdgeCount(getAllEdges(last.before.graph), e.from, e.to, e.type)
         <= DetectedCount(last.analysed, last.fs, e.from, e.to, e.type)

====
